---------------------------- MODULE Spec2Model ----------------------------
(***************************************************************************)
(* A model of the lnk-rs Shell Link (.lnk) reader and writer.              *)
(*                                                                         *)
(* The file content is a sequence of bytes (0..255).  ShellLink::open is   *)
(* modelled as a state machine over that sequence: one action per section  *)
(* of the file and one action per iteration of the two decoding loops      *)
(* (IdList::read_options and the ExtraData loop of open).                  *)
(*                                                                         *)
(* Outcomes of a call are kept apart: "Ok", the error values returned to   *)
(* the caller, and "panic" (the thread unwinds: a failed assert!, an       *)
(* out-of-range slice, an arithmetic overflow in a checked build).         *)
(***************************************************************************)
EXTENDS Integers, Sequences, FiniteSets, TLC

VARIABLES
    data,               \* the content of the file given to open
    pc,                 \* the section the caller / open is in, or ended in
    cursor,             \* lib.rs: `cursor`
    result,             \* outcome of save / open: "none" while running
    header,             \* lib.rs: `shell_link_header`
    linktarget_id_list, \* lib.rs: `linktarget_id_list`
    idlist_impl,        \* which IdList::read_options decodes the target list
    link_info,          \* lib.rs: `link_info`
    bytes_to_read,      \* IdList::read_options: `bytes_to_read`
    item_id,            \* IdList::read_options: `item_id`, the last ItemID read
    item_id_list,       \* IdList::read_options: `item_id_list`
    consumed,           \* bytes the IdList reader took from the stream
    strs,               \* the five StringData slots, in file order
    slot,               \* next StringData slot open looks at
    extra_data,         \* lib.rs: `extra_data`
    link,               \* the ShellLink under construction / handed to save
    made_by,            \* what made it: "default", "new_simple", "none" for open
    opened,             \* the value open returned (None unless Ok)
    written             \* what save made of the value open returned

vars == << data, pc, cursor, result, header, linktarget_id_list, idlist_impl, link_info,
           bytes_to_read,
           item_id, item_id_list, consumed, strs, slot, extra_data, link, made_by,
           opened, written >>

\* Option<T>: None is the empty sequence, Some(v) the one-element sequence.
None == << >>
Some(v) == << v >>
IsSome(o) == o # << >>
Unwrap(o) == o[1]

-----------------------------------------------------------------------------
(* Little-endian primitives (byteorder::LE, binread read_le).              *)

Byte == 0..255

\* Rust d[a..b] for a 0-based half-open range; callers check the range first.
Slice(d, a, b) == SubSeq(d, a + 1, b)

\* Rust d[a..]
From(d, a) == SubSeq(d, a + 1, Len(d))

Zeros(n) == [i \in 1..n |-> 0]

Pow2(k) == 2 ^ k

read_u16(d, off) == d[off + 1] + 256 * d[off + 2]

\* A u32 read.  The checker's integers are 32-bit signed, so a value with
\* bit 31 set is reported as TooBig, which is larger than every length and
\* every size the model compares it with.
TooBig == 2147483646 + 1

read_u32(d, off) ==
    IF d[off + 4] >= 128 THEN TooBig
    ELSE d[off + 1] + 256 * d[off + 2] + 65536 * d[off + 3] + 16777216 * d[off + 4]

\* The set of bit positions set in the n-byte little-endian integer at off.
read_bits(d, off, n) ==
    { k \in 0..(8 * n - 1) : (d[off + 1 + (k \div 8)] \div Pow2(k % 8)) % 2 = 1 }

write_u16(v) == << v % 256, (v \div 256) % 256 >>

write_u32(v) == << v % 256, (v \div 256) % 256, (v \div 65536) % 256,
                   (v \div 16777216) % 256 >>

RECURSIVE SumPow(_)
SumPow(S) == IF S = {} THEN 0
             ELSE LET k == CHOOSE x \in S : TRUE IN Pow2(k) + SumPow(S \ {k})

\* The n-byte little-endian integer whose set bits are S.
write_bits(S, n) ==
    [j \in 1..n |-> SumPow({ k - 8 * (j - 1) : k \in { x \in S : x \div 8 = j - 1 } })]


-----------------------------------------------------------------------------
(* filetime.rs: FileTime.  A 64-bit value is the tuple of its four 16-bit  *)
(* limbs, least significant first; a u32 that is only stored and written  *)
(* back is the tuple of its two.                                          *)

\* The outcome of a fallible operation: Ok(v) or the error e.
Ok(v) == [res |-> "Ok", val |-> v]
Err(e) == [res |-> e, val |-> None]

\* The eight bytes at off read with the most significant limb first.
read_u64_be(d, off) == [i \in 1..4 |-> read_u16(d, off + 8 - 2 * i)]

\* `let raw: u64 = reader.read_le()?`
read_u64(d, off) == [i \in 1..4 |-> read_u16(d, off + 2 * (i - 1))]

\* u64::to_le_bytes, LE::write_u64
u64_to_le_bytes(raw) ==
    write_u16(raw[1]) \o write_u16(raw[2]) \o write_u16(raw[3]) \o write_u16(raw[4])

\* winstructs WinTimestamp::new(buffer): the u64 read from the first eight
\* bytes of the buffer; an error on a shorter one.
WinTimestamp_new(buffer) ==
    IF Len(buffer) < 8 THEN Err("Io") ELSE Ok(read_u64(buffer, 0))

\* impl BinRead for FileTime: FileTime(WinTimestamp, u64).
FileTime_read(d, pos) ==
    IF pos + 8 > Len(d) THEN Err("Io")
    ELSE LET raw == read_u64(d, pos)
             ts == WinTimestamp_new(u64_to_le_bytes(raw))
         IN  IF ts.res # "Ok" THEN Err("AssertFail")
             ELSE Ok([timestamp |-> ts.val, raw |-> raw])

\* impl From<FileTime> for u64: the second component.
FileTime_into_u64(val) == val.raw

\* impl Default for FileTime
FileTime_default == [timestamp |-> << 0, 0, 0, 0 >>, raw |-> << 0, 0, 0, 0 >>]

\* file_size: u32 as read by the derive and as written by LE::write_u32.
read_le_u32(d, off) == << read_u16(d, off), read_u16(d, off + 2) >>
LE_write_u32(v) == write_u16(v[1]) \o write_u16(v[2])

\* icon_index: i32 as read by the derive (two's complement) and as written
\* by LE::write_i32.
read_le_i32(d, off) ==
    LET hi == read_u16(d, off + 2)
    IN  read_u16(d, off) + 65536 * (IF hi >= 32768 THEN hi - 65536 ELSE hi)
LE_write_i32(v) ==
    << v % 256, (v \div 256) % 256, (v \div 65536) % 256, (v \div 16777216) % 256 >>

-----------------------------------------------------------------------------
(* header.rs: ShellLinkHeader and its flag and enumeration domains.        *)

HeaderLen == 76

\* header.rs: const CLSID, as the 16 bytes LE::write_u128 emits.
CLSID == << 1, 20, 2, 0, 0, 0, 0, 0, 192, 0, 0, 0, 0, 0, 0, 70 >>

\* Bit positions of the LinkFlags constants the orchestrator looks at.
HAS_LINK_TARGET_ID_LIST == 0
HAS_LINK_INFO == 1
HAS_NAME == 2
HAS_RELATIVE_PATH == 3
HAS_WORKING_DIR == 4
HAS_ARGUMENTS == 5
HAS_ICON_LOCATION == 6
IS_UNICODE == 7

\* bitflags! LinkFlags: 27 constants, bits 0..26.
LinkFlags == 0..26

\* bitflags! FileAttributeFlags: 15 constants, bits 0..14.
FileAttributeFlags == 0..14

FILE_ATTRIBUTE_NORMAL == 7
FILE_ATTRIBUTE_DIRECTORY == 4

\* bitflags! HotkeyModifiers: SHIFT, CONTROL, ALT.
HotkeyModifiers == 0..2

\* enum HotkeyKey (repr u8).
HotkeyKey == {0} \cup (48..57) \cup (65..90) \cup (112..135) \cup {144, 145}

\* enum ShowCommand (repr u32).
ShowCommand == {1, 3, 7}


\* binread_flags!: Self::from_bits(raw) is Some iff no undefined bit is set.
from_bits(raw, defined) == IF raw \subseteq defined THEN Ok(raw) ELSE Err("AssertFail")

\* #[derive_binread] ShellLinkHeader, read from d = data[0..0x4c].  Fields are
\* read in declaration order and the first failing one ends the read.
\* FileTime::read_options accepts every 64-bit value (WinTimestamp::new only
\* needs eight bytes), so the three timestamps cannot fail here.
ShellLinkHeader_read(d) ==
    LET header_size == read_u32(d, 0)
        link_clsid == Slice(d, 4, 20)
        link_flags == from_bits(read_bits(d, 20, 4), LinkFlags)
        file_attributes == from_bits(read_bits(d, 24, 4), FileAttributeFlags)
        show_command == read_u32(d, 60)
        low_byte == d[65]
        high_byte == from_bits(read_bits(d, 65, 1), HotkeyModifiers)
    IN  IF link_clsid # CLSID THEN Err("AssertFail")
        ELSE IF link_flags.res # "Ok" THEN Err("AssertFail")
        ELSE IF file_attributes.res # "Ok" THEN Err("AssertFail")
        ELSE IF show_command \notin ShowCommand THEN Err("NoVariantMatch")
        ELSE IF low_byte \notin HotkeyKey THEN Err("NoVariantMatch")
        ELSE IF high_byte.res # "Ok" THEN Err("AssertFail")
        ELSE Ok([ header_size |-> header_size,
                  link_flags |-> link_flags.val,
                  file_attributes |-> file_attributes.val,
                  creation_time |-> FileTime_read(d, 28).val,
                  access_time |-> FileTime_read(d, 36).val,
                  write_time |-> FileTime_read(d, 44).val,
                  file_size |-> read_le_u32(d, 52),
                  icon_index |-> read_le_i32(d, 56),
                  show_command |-> show_command,
                  hotkey |-> [low_byte |-> low_byte, high_byte |-> high_byte.val] ])

\* The key written to the high byte and the modifiers to the low byte.
to_flags_u16_swapped(hotkey) == hotkey.low_byte * 256 + SumPow(hotkey.high_byte)

\* HotkeyFlags::to_flags_u16
to_flags_u16(hotkey) == hotkey.low_byte + SumPow(hotkey.high_byte) * 256

\* impl From<ShellLinkHeader> for [u8; 0x4c]
ShellLinkHeader_into_bytes(val) ==
    write_u32(76) \o CLSID
    \o write_bits(val.link_flags, 4)
    \o write_bits(val.file_attributes, 4)
    \o u64_to_le_bytes(FileTime_into_u64(val.creation_time))
    \o u64_to_le_bytes(FileTime_into_u64(val.access_time))
    \o u64_to_le_bytes(FileTime_into_u64(val.write_time))
    \o LE_write_u32(val.file_size) \o LE_write_i32(val.icon_index)
    \o write_u32(val.show_command)
    \o write_u16(to_flags_u16(val.hotkey))
    \o write_u16(0) \o write_u32(0) \o write_u32(0)

\* What size_of::<Self>() evaluates to is decided by the compiler's layout of
\* the struct; the default header carries it and emission never reads it.
size_of_Self == "size_of::<ShellLinkHeader>()"

\* impl Default for ShellLinkHeader.  FileTime::now() is the clock's value;
\* the model takes the FileTime it returns as a parameter.
ShellLinkHeader_default(now) ==
    [ header_size |-> size_of_Self,
      link_flags |-> {IS_UNICODE},
      file_attributes |-> {FILE_ATTRIBUTE_NORMAL},
      creation_time |-> now, access_time |-> now, write_time |-> now,
      file_size |-> << 0, 0 >>, icon_index |-> 0,
      show_command |-> 1,
      hotkey |-> [low_byte |-> 0, high_byte |-> {}] ]

-----------------------------------------------------------------------------
(* Strings.  A Rust String is modelled as the sequence of its Unicode      *)
(* scalar values (code points).                                           *)

\* encoding_rs WINDOWS_1252: bytes 0x80..0x9F decode to these code points,
\* every other byte to the code point of the same value.
W1252_HIGH == << 8364, 129, 8218, 402, 8222, 8230, 8224, 8225,
                 710, 8240, 352, 8249, 338, 141, 381, 143,
                 144, 8216, 8217, 8220, 8221, 8226, 8211, 8212,
                 732, 8482, 353, 8250, 339, 157, 382, 376 >>

W1252_decode_byte(b) == IF b >= 128 /\ b <= 159 THEN W1252_HIGH[b - 127] ELSE b

\* WINDOWS_1252.decode(&buffer): no byte is malformed in this encoding.
W1252_decode(buf) == Ok([i \in 1..Len(buf) |-> W1252_decode_byte(buf[i])])

IsHighSurrogate(u) == u >= 55296 /\ u <= 56319
IsLowSurrogate(u) == u >= 56320 /\ u <= 57343

\* The UTF-16 code units of an even-length little-endian buffer.
CodeUnits(buf) == [i \in 1..(Len(buf) \div 2) |-> read_u16(buf, 2 * (i - 1))]

\* UTF-16 decoding: a surrogate pair is one scalar value, a lone surrogate is
\* malformed (had_errors).
RECURSIVE utf16_scalars(_)
utf16_scalars(u) ==
    IF u = << >> THEN Ok(<< >>)
    ELSE IF IsHighSurrogate(u[1]) THEN
        IF Len(u) >= 2 /\ IsLowSurrogate(u[2]) THEN
            LET rest == utf16_scalars(SubSeq(u, 3, Len(u)))
            IN  IF rest.res # "Ok" THEN rest
                ELSE Ok(<< 65536 + (u[1] - 55296) * 1024 + (u[2] - 56320) >> \o rest.val)
        ELSE Err("AssertFail")
    ELSE IF IsLowSurrogate(u[1]) THEN Err("AssertFail")
    ELSE LET rest == utf16_scalars(Tail(u))
         IN  IF rest.res # "Ok" THEN rest ELSE Ok(<< u[1] >> \o rest.val)

\* UTF_16LE.decode(&buffer) for a buffer of whole code units that does not
\* start with a byte-order mark.
UTF16LE_decode(buf) == utf16_scalars(CodeUnits(buf))

\* str::encode_utf16
RECURSIVE encode_utf16(_)
encode_utf16(s) ==
    IF s = << >> THEN << >>
    ELSE (IF s[1] < 65536 THEN << s[1] >>
          ELSE << 55296 + ((s[1] - 65536) \div 1024), 56320 + ((s[1] - 65536) % 1024) >>)
         \o encode_utf16(Tail(s))

RECURSIVE write_u16_into(_)
write_u16_into(units) ==
    IF units = << >> THEN << >> ELSE write_u16(units[1]) \o write_u16_into(Tail(units))

\* The number of bytes of a scalar value in UTF-8, the encoding of String.
utf8_len(c) == IF c < 128 THEN 1 ELSE IF c < 2048 THEN 2 ELSE IF c < 65536 THEN 3 ELSE 4

\* str::find for the character U+0000: the byte index of its first
\* occurrence in the String, or None.
str_find_nul(s) ==
    LET Z == { i \in 1..Len(s) : s[i] = 0 }
    IN  IF Z = {} THEN None
        ELSE LET z == CHOOSE i \in Z : \A j \in Z : i <= j
                 widths == [i \in 1..(z - 1) |-> utf8_len(s[i])]
                 sum[i \in 0..(z - 1)] == IF i = 0 THEN 0 ELSE sum[i - 1] + widths[i]
             IN  Some(sum[z - 1])

\* substring::Substring::substring(start, end): the characters of s from
\* character index start up to character index end.
substring(s, start, end) ==
    SubSeq(s, start + 1, IF end < Len(s) THEN end ELSE Len(s))

\* strings/fixed_size_string.rs: FixedSizeString::read_options with the
\* arguments (count, encoding), on the stream d at position pos.
FixedSizeString_read(d, pos, count, encoding) ==
    IF pos + count > Len(d) THEN Err("Io")
    ELSE LET buffer == Slice(d, pos, pos + count)
             cow == IF encoding = "Unicode" THEN UTF16LE_decode(buffer)
                    ELSE W1252_decode(buffer)
         IN  IF cow.res # "Ok" THEN Err("AssertFail")
             ELSE LET res == cow.val
                      last_character == str_find_nul(res)
                  IN  IF IsSome(last_character)
                      THEN Ok(substring(res, 0, Unwrap(last_character)))
                      ELSE Ok(res)

\* StringEncoding::from(link_flags, default_codepage)
StringEncoding_from(link_flags) ==
    IF IS_UNICODE \in link_flags THEN "Unicode" ELSE "CodePage"

\* stringdata::to_data.  `c as u8` keeps the low eight bits of the scalar
\* value; `len as u16` keeps the low sixteen bits of the length.
to_data(str_data, flags) ==
    IF IS_UNICODE \notin flags THEN
        LET bytes == [i \in 1..Len(str_data) |-> str_data[i] % 256]
        IN  write_u16(Len(bytes) % 65536) \o bytes
    ELSE
        LET utf16 == encode_utf16(str_data)
        IN  write_u16(Len(utf16) % 65536) \o write_u16_into(utf16)

\* The outcomes of `count_characters * 2` on a u16: the product, or, when it
\* does not fit, a panic (overflow checks on) or the wrapped product (off).
mul2_u16(count) ==
    IF count * 2 < 65536 THEN { [panic |-> FALSE, v |-> count * 2] }
    ELSE { [panic |-> TRUE, v |-> 0], [panic |-> FALSE, v |-> (count * 2) % 65536] }

\* strings/sized_string.rs: SizedString::read_options on the stream d at
\* position pos, with nbytes the length of the buffer it allocates.
\* val.len is the number of bytes taken from the stream.
SizedString_read_buffer(d, pos, encoding, nbytes) ==
    IF Len(d) - pos - 2 < nbytes THEN Err("Io")
    ELSE LET buffer == Slice(d, pos + 2, pos + 2 + nbytes)
             dec == IF encoding = "Unicode" THEN UTF16LE_decode(buffer)
                    ELSE W1252_decode(buffer)
         IN  IF dec.res # "Ok" THEN Err("AssertFail")
             ELSE Ok([len |-> 2 + nbytes, string |-> dec.val])

\* The set of outcomes of SizedString::read_options.
SizedString_read(d, pos, encoding) ==
    IF Len(d) - pos < 2 THEN { Err("Io") }
    ELSE LET count_characters == read_u16(d, pos)
         IN  IF encoding = "CodePage"
             THEN { SizedString_read_buffer(d, pos, encoding, count_characters) }
             ELSE { IF n.panic THEN Err("panic")
                    ELSE SizedString_read_buffer(d, pos, encoding, n.v)
                    : n \in mul2_u16(count_characters) }

-----------------------------------------------------------------------------
(* linktarget.rs / itemid.rs: ItemID.                                     *)

\* #[derive(BinRead)] ItemID read from the stream d at position pos:
\* size: u16 with assert(size == 0 || size > 2), then size - 2 data bytes.
\* val.used is the number of bytes taken from the stream.
ItemID_read(d, pos) ==
    IF Len(d) - pos < 2 THEN Err("Io")
    ELSE LET size == read_u16(d, pos)
         IN  IF ~(size = 0 \/ size > 2) THEN Err("AssertFail")
             ELSE IF size = 0 THEN Ok([size |-> 0, data |-> << >>, used |-> 2])
             ELSE IF Len(d) - pos < size THEN Err("Io")
             ELSE Ok([size |-> size, data |-> Slice(d, pos + 2, pos + size),
                      used |-> size])

\* linktarget.rs: impl From<&[u8]> for ItemID.  LE::read_u16 panics on a
\* slice shorter than two bytes, data[2..size] on size < 2 or size > len.
ItemID_from(d) ==
    IF Len(d) < 2 THEN Err("panic")
    ELSE LET size == read_u16(d, 0)
         IN  IF size < 2 \/ size > Len(d) THEN Err("panic")
             ELSE Ok([size |-> size, data |-> Slice(d, 2, size), used |-> size])

-----------------------------------------------------------------------------
(* extradata/: the block decoders.  Each takes the block body            *)
(* (src[8..size] of the block) and yields Ok, an error value or a panic.  *)

\* trim_nul_terminated_string (strings.rs): s.find('\0').unwrap_or(0).
find_nul(s) ==
    IF \E i \in 1..Len(s) : s[i] = 0
    THEN (CHOOSE i \in 1..Len(s) : s[i] = 0 /\ \A j \in 1..(i - 1) : s[j] # 0) - 1
    ELSE 0

trim_nul_terminated_string(s) == SubSeq(s, 1, find_nul(s))

\* The two strings of an EnvironmentVariable / Darwin / IconEnvironment
\* block: src[0..260] and src[260..520]; either slice panics when the body is
\* shorter.  The bytes are kept as they are: the blocks of the model carry
\* 7-bit text, which from_utf8_lossy leaves unchanged.
ansi_unicode_pair(src) ==
    IF Len(src) < 520 THEN Err("panic")
    ELSE LET target_ansi == trim_nul_terminated_string(Slice(src, 0, 260))
             raw == trim_nul_terminated_string(Slice(src, 260, 520))
         IN  Ok([ansi |-> target_ansi,
                 unicode |-> IF Len(raw) = 0 THEN None ELSE Some(raw)])

\* EnvironmentVariableDataBlock::unpack_from_slice
EnvironmentVariableDataBlock_unpack(src) == ansi_unicode_pair(src)

\* impl From<&[u8]> for DarwinDataBlock
DarwinDataBlock_from(src) == ansi_unicode_pair(src)

\* impl From<&[u8]> for IconEnvironmentDataBlock
IconEnvironmentDataBlock_from(src) == ansi_unicode_pair(src)

\* bitflags! FillAttributeFlags: eight constants, bits 0..7.
FillAttributeFlags == 0..7

\* bitflags! FontFamilyFlags: the constants 0x10 .. 0x50 and 0x01 .. 0x08
\* cover bits 0..6.
FontFamilyFlags == 0..6

\* bitflags' from_bits_truncate: the undefined bits are dropped.
from_bits_truncate(raw, defined) == raw \cap defined

\* ConsoleDataBlock is a PackedStruct with ByteArray = [u8; 196]:
\* unpack_from_slice gives a PackingError unless the slice has that length,
\* and unpack itself truncates unknown flag bits and cannot fail.
ConsoleDataBlock_unpack(src) ==
    IF Len(src) # 196 THEN Err("PackingError")
    ELSE Ok([fill_attributes |->
                 from_bits_truncate(read_bits(src, 0, 2), FillAttributeFlags),
             popup_fill_attributes |->
                 from_bits_truncate(read_bits(src, 2, 2), FillAttributeFlags),
             font_family |->
                 from_bits_truncate(read_bits(src, 28, 4), FontFamilyFlags)])

\* impl From<&[u8]> for ConsoleFEDataBlock: LE::read_u32(data)
ConsoleFEDataBlock_from(src) ==
    IF Len(src) < 4 THEN Err("panic") ELSE Ok([code_page |-> read_u32(src, 0)])

\* impl From<&[u8]> for SpecialFolderDataBlock
SpecialFolderDataBlock_from(src) ==
    IF Len(src) < 8 THEN Err("panic")
    ELSE Ok([special_folder_id |-> read_u32(src, 0), offset |-> read_u32(src, 4)])

\* impl From<&[u8]> for KnownFolderDataBlock: read_u128(data), read_u32(&data[16..])
KnownFolderDataBlock_from(src) ==
    IF Len(src) < 20 THEN Err("panic")
    ELSE Ok([known_folder_id |-> Slice(src, 0, 16), offset |-> read_u32(src, 16)])

\* impl From<&[u8]> for TrackerDataBlock: the last read is
\* LE::read_u128(&data[72..]).
TrackerDataBlock_from(src) ==
    IF Len(src) < 88 THEN Err("panic")
    ELSE Ok([machine_id |-> trim_nul_terminated_string(From(src, 8)),
             droid |-> << Slice(src, 24, 40), Slice(src, 40, 56) >>,
             droid_birth |-> << Slice(src, 56, 72), Slice(src, 72, 88) >>])

\* ShimDataBlock::unpack_from_slice
ShimDataBlock_unpack(src) == Ok([layer_name |-> src])

\* PropertyStoreDataBlock::unpack_from_slice
PropertyStoreDataBlock_unpack(src) == Ok([property_store |-> src])

\* VistaAndAboveIdListDataBlock::unpack_from_slice: the loop, with
\* inner_data = src[8 + taken ..] and offset the sum of the sizes read.
RECURSIVE VistaLoop(_, _, _, _)
VistaLoop(src, taken, offset, id_list) ==
    IF Len(src) - offset < 2 THEN Err("panic")
    ELSE IF read_u16(src, offset) = 0 THEN Ok([id_list |-> id_list])
    ELSE LET id == ItemID_from(From(src, 8 + taken))
         IN  IF id.res # "Ok" THEN id
             ELSE VistaLoop(src, taken + id.val.size, offset + id.val.size,
                            Append(id_list, [size |-> id.val.size, data |-> id.val.data]))

VistaAndAboveIdListDataBlock_unpack(src) ==
    IF Len(src) < 8 THEN Err("panic") ELSE VistaLoop(src, 0, 0, << >>)

\* The signatures of extradata/mod.rs, as the four bytes on the wire.
Sig(n) == << n, 0, 0, 160 >>

KnownSignatures == { Sig(n) : n \in 1..11 }

\* ExtraData::unpack_from_slice(src), src = data[cursor..] with at least four
\* bytes.  LE::read_u32(&src[4..]) panics when fewer than eight bytes are
\* left, &src[8..size] when size < 8 or size > src.len(), and the last match
\* arm is panic!("Invalid extra data type!").
ExtraData_unpack_from_slice(src) ==
    LET size == read_u32(src, 0)
    IN  IF Len(src) < 8 THEN Err("panic")
        ELSE IF size < 8 \/ size > Len(src) THEN Err("panic")
        ELSE LET sig == Slice(src, 4, 8)
                 body == Slice(src, 8, size)
                 tag(kind, r) == IF r.res # "Ok" THEN r
                                 ELSE Ok([kind |-> kind, block |-> r.val])
             IN  CASE sig = Sig(2) -> tag("ConsoleProps", ConsoleDataBlock_unpack(body))
                   [] sig = Sig(4) -> tag("ConsoleFeProps", ConsoleFEDataBlock_from(body))
                   [] sig = Sig(6) -> tag("DarwinProps", DarwinDataBlock_from(body))
                   [] sig = Sig(1) -> tag("EnvironmentProps", EnvironmentVariableDataBlock_unpack(body))
                   [] sig = Sig(7) -> tag("IconEnvironmentProps", IconEnvironmentDataBlock_from(body))
                   [] sig = Sig(11) -> tag("KnownFolderProps", KnownFolderDataBlock_from(body))
                   [] sig = Sig(9) -> tag("PropertyStoreProps", PropertyStoreDataBlock_unpack(body))
                   [] sig = Sig(8) -> tag("ShimProps", ShimDataBlock_unpack(body))
                   [] sig = Sig(5) -> tag("SpecialFolderProps", SpecialFolderDataBlock_from(body))
                   [] sig = Sig(3) -> tag("TrackerProps", TrackerDataBlock_from(body))
                   [] sig = Sig(10) -> tag("VistaAndAboveIdListProps", VistaAndAboveIdListDataBlock_unpack(body))
                   [] OTHER -> Err("panic")

-----------------------------------------------------------------------------
(* linkinfo.rs: LinkInfo, VolumeID, CommonNetworkRelativeLink.            *)

\* The stream holds n more bytes at position pos.
avail(d, pos, n) == pos + n <= Len(d)

\* String::from_utf16_lossy / binread's NullWideString display: an unpaired
\* surrogate becomes U+FFFD.
RECURSIVE utf16_lossy(_)
utf16_lossy(u) ==
    IF u = << >> THEN << >>
    ELSE IF IsHighSurrogate(u[1]) /\ Len(u) >= 2 /\ IsLowSurrogate(u[2])
    THEN << 65536 + (u[1] - 55296) * 1024 + (u[2] - 56320) >>
         \o utf16_lossy(SubSeq(u, 3, Len(u)))
    ELSE IF IsHighSurrogate(u[1]) \/ IsLowSurrogate(u[1])
    THEN << 65533 >> \o utf16_lossy(Tail(u))
    ELSE << u[1] >> \o utf16_lossy(Tail(u))

\* strings/null_terminated_string.rs: NullTerminatedString::read_options on
\* the stream d at position pos.  CodePage reads bytes up to a zero byte,
\* Unicode reads 16-bit units up to a zero unit; the end of the stream
\* before the terminator is an Io error.  val.next is the stream position
\* after the terminator.
NullTerminatedString_read(d, pos, encoding) ==
    IF encoding = "CodePage"
    THEN LET Z == { i \in pos..(Len(d) - 1) : d[i + 1] = 0 }
         IN  IF Z = {} THEN Err("Io")
             ELSE LET z == CHOOSE i \in Z : \A j \in Z : i <= j
                  IN  Ok([string |-> W1252_decode(Slice(d, pos, z)).val,
                          next |-> z + 1])
    ELSE LET Z == { k \in 0..((Len(d) - pos) \div 2 - 1) : read_u16(d, pos + 2 * k) = 0 }
         IN  IF Z = {} THEN Err("Io")
             ELSE LET z == CHOOSE k \in Z : \A j \in Z : k <= j
                  IN  Ok([string |-> utf16_lossy(CodeUnits(Slice(d, pos, pos + 2 * z))),
                          next |-> pos + 2 * z + 2])

\* `offset_unicode.and(Some(Unicode)).unwrap_or(CodePage)`
encoding_of(offset_unicode) == IF IsSome(offset_unicode) THEN "Unicode" ELSE "CodePage"

\* `offset_unicode.unwrap_or(offset)`
unwrap_or(o, default) == IF IsSome(o) THEN Unwrap(o) ELSE default

\* LinkInfoFlags, as bit positions.
VOLUME_ID_AND_LOCAL_BASE_PATH == 0
COMMON_NETWORK_RELATIVE_LINK_AND_PATH_SUFFIX == 1
LinkInfoFlags == { VOLUME_ID_AND_LOCAL_BASE_PATH,
                   COMMON_NETWORK_RELATIVE_LINK_AND_PATH_SUFFIX }

\* enum DriveType, #[br(repr(u32))]
DriveType == 0..6

\* `#[br(if(volume_label_offset == 0x14))]` on volume_label_offset_unicode,
\* and the same condition with the comparison turned into "at least".
volume_label_unicode_if_at_least(volume_label_offset) == volume_label_offset >= 20
volume_label_unicode_if(volume_label_offset) == volume_label_offset = 20

\* #[derive(BinRead)] VolumeID read from the stream d at position S.
VolumeID_read(d, S) ==
    IF ~avail(d, S, 4) THEN Err("Io")
    ELSE LET volume_id_size == read_u32(d, S)
    IN  IF ~(volume_id_size > 16) THEN Err("AssertFail")
    ELSE IF ~avail(d, S + 4, 4) THEN Err("Io")
    ELSE LET drive_type == read_u32(d, S + 4)
    IN  IF drive_type \notin DriveType THEN Err("NoVariantMatch")
    ELSE IF ~avail(d, S + 8, 8) THEN Err("Io")
    ELSE LET drive_serial_number == Slice(d, S + 8, S + 12)
             volume_label_offset == read_u32(d, S + 12)
    IN  IF ~(volume_label_offset < volume_id_size) THEN Err("AssertFail")
    ELSE IF volume_label_unicode_if(volume_label_offset) /\ ~avail(d, S + 16, 4)
         THEN Err("Io")
    ELSE LET volume_label_offset_unicode ==
                 IF volume_label_unicode_if(volume_label_offset)
                 THEN Some(read_u32(d, S + 16)) ELSE None
             volume_label ==
                 NullTerminatedString_read(
                     d, S + unwrap_or(volume_label_offset_unicode, volume_label_offset),
                     encoding_of(volume_label_offset_unicode))
    IN  IF volume_label.res # "Ok" THEN volume_label
        ELSE Ok([ start_offset |-> S,
                  volume_id_size |-> volume_id_size,
                  drive_type |-> drive_type,
                  drive_serial_number |-> drive_serial_number,
                  volume_label_offset |-> volume_label_offset,
                  volume_label_offset_unicode |-> volume_label_offset_unicode,
                  volume_label |-> volume_label.val.string,
                  next |-> S + volume_id_size ])

\* CommonNetworkRelativeLinkFlags, as bit positions.
VALID_DEVICE == 0
VALID_NET_TYPE == 1
CommonNetworkRelativeLinkFlags == { VALID_DEVICE, VALID_NET_TYPE }

\* enum NetworkProviderType, #[br(repr(u32))]: 0x1a0000 .. 0x430000 in steps
\* of 0x10000, without 0x280000.
NetworkProviderType == { n * 65536 : n \in (26..67) \ {40} }

\* linkinfo.rs 445-446: the field is read as a NetworkProviderType, which
\* fails on a value outside the enumeration, and the result is then mapped
\* to Some(t) or None by VALID_NET_TYPE.
network_provider_type_read(flags, raw) ==
    IF raw \notin NetworkProviderType THEN Err("NoVariantMatch")
    ELSE IF VALID_NET_TYPE \in flags THEN Ok(Some(raw))
    ELSE Ok(None)

\* `#[br(if(net_name_offset > 0x14))]` on net_name_offset_unicode and on
\* device_name_offset_unicode, and the same condition with the comparison
\* turned into "at least".
net_name_unicode_if_at_least(net_name_offset) == net_name_offset >= 20
net_name_unicode_if(net_name_offset) == net_name_offset > 20

\* #[derive(BinRead)] CommonNetworkRelativeLink read from the stream d at
\* position S.
CommonNetworkRelativeLink_read(d, S) ==
    IF ~avail(d, S, 4) THEN Err("Io")
    ELSE LET common_network_relative_link_size == read_u32(d, S)
    IN  IF ~(common_network_relative_link_size >= 20) THEN Err("AssertFail")
    ELSE IF ~avail(d, S + 4, 4) THEN Err("Io")
    ELSE LET flags == from_bits(read_bits(d, S + 4, 4), CommonNetworkRelativeLinkFlags)
    IN  IF flags.res # "Ok" THEN Err("AssertFail")
    ELSE IF ~avail(d, S + 8, 4) THEN Err("Io")
    ELSE LET net_name_offset == read_u32(d, S + 8)
    IN  IF ~(net_name_offset < common_network_relative_link_size) THEN Err("AssertFail")
    ELSE IF ~avail(d, S + 12, 4) THEN Err("Io")
    ELSE LET device_name_offset == read_u32(d, S + 12)
    IN  IF ~(device_name_offset < common_network_relative_link_size) THEN Err("AssertFail")
    ELSE IF ~avail(d, S + 16, 4) THEN Err("Io")
    ELSE LET network_provider_type ==
                 network_provider_type_read(flags.val, read_u32(d, S + 16))
    IN  IF network_provider_type.res # "Ok" THEN network_provider_type
    ELSE IF net_name_unicode_if(net_name_offset) /\ ~avail(d, S + 20, 8) THEN Err("Io")
    ELSE LET net_name_offset_unicode ==
                 IF net_name_unicode_if(net_name_offset)
                 THEN Some(read_u32(d, S + 20)) ELSE None
             device_name_offset_unicode ==
                 IF net_name_unicode_if(net_name_offset)
                 THEN Some(read_u32(d, S + 24)) ELSE None
             net_name ==
                 NullTerminatedString_read(
                     d, S + unwrap_or(net_name_offset_unicode, net_name_offset),
                     encoding_of(net_name_offset_unicode))
             device_name ==
                 NullTerminatedString_read(
                     d, S + unwrap_or(device_name_offset_unicode, device_name_offset),
                     encoding_of(device_name_offset_unicode))
    IN  IF net_name.res # "Ok" THEN net_name
        ELSE IF device_name.res # "Ok" THEN device_name
        ELSE Ok([ start_offset |-> S,
                  common_network_relative_link_size |-> common_network_relative_link_size,
                  flags |-> flags.val,
                  net_name_offset |-> net_name_offset,
                  device_name_offset |-> device_name_offset,
                  net_name_offset_unicode |-> net_name_offset_unicode,
                  device_name_offset_unicode |-> device_name_offset_unicode,
                  network_provider_type |-> network_provider_type.val,
                  net_name |-> net_name.val.string,
                  device_name |-> device_name.val.string,
                  next |-> S + common_network_relative_link_size ])

\* The assertion on an offset owned by a flag (linkinfo.rs 54, 62, 70).
offset_assert(flag_set, offset, link_info_size) ==
    IF flag_set THEN offset > 0 /\ offset < link_info_size ELSE offset = 0

\* The assertion on an optional Unicode offset (linkinfo.rs 87, 97): a
\* field that was read with its flag clear fails it whatever its value.
offset_unicode_assert(flag_set, offset_unicode, link_info_size) ==
    IF IsSome(offset_unicode)
    THEN IF flag_set
         THEN Unwrap(offset_unicode) > 0 /\ Unwrap(offset_unicode) < link_info_size
         ELSE FALSE
    ELSE TRUE

\* #[derive(BinRead)] LinkInfo read from the stream d at position B.  Fields
\* are read in declaration order and the first failing one ends the read.
\* val.next is the stream position after _next_offset.
LinkInfo_read(d, B) ==
    IF ~avail(d, B, 4) THEN Err("Io")
    ELSE LET link_info_size == read_u32(d, B)
    IN  IF ~avail(d, B + 4, 4) THEN Err("Io")
    ELSE LET link_info_header_size == read_u32(d, B + 4)
    IN  IF ~avail(d, B + 8, 4) THEN Err("Io")
    ELSE LET link_info_flags == from_bits(read_bits(d, B + 8, 4), LinkInfoFlags)
    IN  IF link_info_flags.res # "Ok" THEN Err("AssertFail")
    ELSE LET has_volume == VOLUME_ID_AND_LOCAL_BASE_PATH \in link_info_flags.val
             has_network ==
                 COMMON_NETWORK_RELATIVE_LINK_AND_PATH_SUFFIX \in link_info_flags.val
    IN  IF ~avail(d, B + 12, 4) THEN Err("Io")
    ELSE LET volume_id_offset == read_u32(d, B + 12)
    IN  IF ~offset_assert(has_volume, volume_id_offset, link_info_size)
        THEN Err("AssertFail")
    ELSE IF ~avail(d, B + 16, 4) THEN Err("Io")
    ELSE LET local_base_path_offset == read_u32(d, B + 16)
    IN  IF ~offset_assert(has_volume, local_base_path_offset, link_info_size)
        THEN Err("AssertFail")
    ELSE IF ~avail(d, B + 20, 4) THEN Err("Io")
    ELSE LET common_network_relative_link_offset == read_u32(d, B + 20)
    IN  IF ~offset_assert(has_network, common_network_relative_link_offset,
                          link_info_size)
        THEN Err("AssertFail")
    ELSE IF ~avail(d, B + 24, 4) THEN Err("Io")
    ELSE LET common_path_suffix_offset == read_u32(d, B + 24)
    IN  IF ~(common_path_suffix_offset < link_info_size) THEN Err("AssertFail")
    ELSE IF link_info_header_size >= 36 /\ ~avail(d, B + 28, 4) THEN Err("Io")
    ELSE LET local_base_path_offset_unicode ==
                 IF link_info_header_size >= 36 THEN Some(read_u32(d, B + 28)) ELSE None
    IN  IF ~offset_unicode_assert(has_volume, local_base_path_offset_unicode,
                                  link_info_size)
        THEN Err("AssertFail")
    ELSE IF link_info_header_size >= 36 /\ ~avail(d, B + 32, 4) THEN Err("Io")
    ELSE LET common_path_suffix_offset_unicode ==
                 IF link_info_header_size >= 36 THEN Some(read_u32(d, B + 32)) ELSE None
    IN  IF ~offset_unicode_assert(has_network, common_path_suffix_offset_unicode,
                                  link_info_size)
        THEN Err("AssertFail")
    ELSE LET volume_id ==
                 IF has_volume THEN VolumeID_read(d, B + volume_id_offset)
                 ELSE Ok(None)
    IN  IF volume_id.res # "Ok" THEN Err(volume_id.res)
    ELSE LET local_base_path ==
                 IF has_volume
                 THEN NullTerminatedString_read(
                          d, B + unwrap_or(local_base_path_offset_unicode,
                                           local_base_path_offset),
                          encoding_of(local_base_path_offset_unicode))
                 ELSE Ok(None)
    IN  IF local_base_path.res # "Ok" THEN Err(local_base_path.res)
    ELSE LET common_network_relative_link ==
                 IF has_network
                 THEN CommonNetworkRelativeLink_read(
                          d, B + common_network_relative_link_offset)
                 ELSE Ok(None)
    IN  IF common_network_relative_link.res # "Ok"
        THEN Err(common_network_relative_link.res)
    ELSE LET common_path_suffix ==
                 NullTerminatedString_read(
                     d, B + unwrap_or(common_path_suffix_offset_unicode,
                                      common_path_suffix_offset),
                     encoding_of(common_path_suffix_offset_unicode))
    IN  IF common_path_suffix.res # "Ok" THEN Err(common_path_suffix.res)
    ELSE LET local_base_path_unicode ==
                 IF has_volume
                 THEN NullTerminatedString_read(
                          d, B + unwrap_or(local_base_path_offset_unicode,
                                           local_base_path_offset),
                          encoding_of(local_base_path_offset_unicode))
                 ELSE Ok(None)
    IN  IF local_base_path_unicode.res # "Ok" THEN Err(local_base_path_unicode.res)
        ELSE Ok([ start_offset |-> B,
                  link_info_size |-> link_info_size,
                  link_info_header_size |-> link_info_header_size,
                  link_info_flags |-> link_info_flags.val,
                  volume_id_offset |-> volume_id_offset,
                  local_base_path_offset |-> local_base_path_offset,
                  common_network_relative_link_offset |->
                      common_network_relative_link_offset,
                  common_path_suffix_offset |-> common_path_suffix_offset,
                  local_base_path_offset_unicode |-> local_base_path_offset_unicode,
                  common_path_suffix_offset_unicode |->
                      common_path_suffix_offset_unicode,
                  volume_id |-> IF has_volume THEN Some(volume_id.val) ELSE None,
                  local_base_path |->
                      IF has_volume THEN Some(local_base_path.val.string) ELSE None,
                  common_network_relative_link |->
                      IF has_network THEN Some(common_network_relative_link.val)
                      ELSE None,
                  common_path_suffix |-> common_path_suffix.val.string,
                  local_base_path_unicode |->
                      IF has_volume THEN Some(local_base_path_unicode.val.string)
                      ELSE None,
                  next |-> B + link_info_size ])

-----------------------------------------------------------------------------
(* lib.rs: the ShellLink value, its setters and save.                     *)

\* Every slot tested against HAS_NAME.
SlotFlag_name(i) == HAS_NAME

\* The five StringData fields in file order, and the LinkFlags bit of each.
SlotFlag(i) == i + 1

NoStrings == << None, None, None, None, None >>

\* impl Default for ShellLink.  strs holds name_string, relative_path,
\* working_dir, command_line_arguments, icon_location.
ShellLink_default(now) ==
    [ header |-> ShellLinkHeader_default(now),
      linktarget_id_list |-> None,
      link_info |-> None,
      strs |-> NoStrings,
      extra_data |-> << >> ]

\* A set that inserts the flag whatever the value.
flags_set_insert(flags, flag, value) == flags \cup {flag}

\* bitflags: flags.set(flag, value)
flags_set(flags, flag, value) == IF value THEN flags \cup {flag} ELSE flags \ {flag}

\* A setter that starts from the blank strings and flags.
set_string_on_blank(sl, i, v) ==
    [sl EXCEPT !.header.link_flags = flags_set({ IS_UNICODE }, SlotFlag(i), IsSome(v)),
               !.strs = [NoStrings EXCEPT ![i] = v]]

\* set_name, set_relative_path, set_working_dir, set_arguments,
\* set_icon_location: slot i of the five.
set_string(sl, i, v) ==
    [sl EXCEPT !.header.link_flags = flags_set(@, SlotFlag(i), IsSome(v)),
               !.strs[i] = v]

\* set_linktarget_id_list and set_link_info.
ShellLink_set_linktarget_id_list(sl, v) ==
    [sl EXCEPT !.header.link_flags = flags_set(@, HAS_LINK_TARGET_ID_LIST, IsSome(v)),
               !.linktarget_id_list = v]

ShellLink_set_link_info(sl, v) ==
    [sl EXCEPT !.header.link_flags = flags_set(@, HAS_LINK_INFO, IsSome(v)),
               !.link_info = v]

\* #[derive(Default)] LinkTargetIdList
LinkTargetIdList_default == [size |-> 0, id_list |-> << >>]

\* ShellLink::new_simple(to), given what the file system says of `to`:
\* whether it is a directory, the file name and the parent of its canonical
\* path.  `.\` is the characters 46, 92.
new_simple(now, is_dir, file_name, parent) ==
    LET sl == ShellLink_default(now)
        flags == { IS_UNICODE }
    IN  IF is_dir
        THEN [sl EXCEPT !.header.link_flags = flags,
                        !.header.file_attributes = { FILE_ATTRIBUTE_DIRECTORY }]
        ELSE LET flagged == [sl EXCEPT !.header.link_flags =
                                           flags \cup { HAS_WORKING_DIR, HAS_RELATIVE_PATH,
                                                        HAS_LINK_INFO }]
                 with_relative_path == set_string(flagged, 2, Some(<< 46, 92 >> \o file_name))
                 with_working_dir == set_string(with_relative_path, 3, Some(parent))
             IN  [with_working_dir EXCEPT !.link_info = None]

\* What save writes for StringData slot i: nothing when the flag is clear,
\* Option::unwrap panics when the flag is set and the field is None.
save_string(sl, i) ==
    IF SlotFlag(i) \notin sl.header.link_flags THEN Ok(<< >>)
    ELSE IF ~IsSome(sl.strs[i]) THEN Err("panic")
    ELSE Ok(to_data(Unwrap(sl.strs[i]), sl.header.link_flags))

RECURSIVE save_strings(_, _)
save_strings(sl, i) ==
    IF i > 5 THEN Ok(<< >>)
    ELSE LET one == save_string(sl, i)
         IN  IF one.res # "Ok" THEN one
             ELSE LET rest == save_strings(sl, i + 1)
                  IN  IF rest.res # "Ok" THEN rest ELSE Ok(one.val \o rest.val)

\* ShellLink::save: the bytes written to the file, or the panic.  With
\* HAS_LINK_TARGET_ID_LIST set the conversion of the list (linktarget.rs,
\* From<LinkTargetIdList> for Vec<u8>) slices an empty Vec and panics; with
\* HAS_LINK_INFO set the conversion of LinkInfo is unimplemented!().
save_bytes(sl) ==
    LET link_flags == sl.header.link_flags
    IN  IF HAS_LINK_TARGET_ID_LIST \in link_flags THEN Err("panic")
        ELSE IF HAS_LINK_INFO \in link_flags THEN Err("panic")
        ELSE LET tail == save_strings(sl, 1)
             IN  IF tail.res # "Ok" THEN tail
                 ELSE Ok(ShellLinkHeader_into_bytes(sl.header) \o tail.val)

-----------------------------------------------------------------------------
(* The files given to open.                                               *)

\* Bounds of the enumerated inputs.
MaxStrLen == 2      \* longest string handed to a setter
MaxItems == 3       \* most ItemIDs written after an IDList length
MaxBudget == 7      \* largest IDList length written in a small file
MaxBlocks == 2      \* most ExtraData blocks in a file
MaxPad == 2         \* most padding bytes inside a LinkInfo

Patch(bytes, off, new) ==
    [i \in 1..Len(bytes) |->
        IF i > off /\ i <= off + Len(new) THEN new[i - off] ELSE bytes[i]]

RECURSIVE Concat(_)
Concat(ss) == IF ss = << >> THEN << >> ELSE ss[1] \o Concat(Tail(ss))

\* Sequences over S of length at most n.
RECURSIVE SeqsUpTo(_, _)
SeqsUpTo(S, n) ==
    IF n = 0 THEN { << >> }
    ELSE LET shorter == SeqsUpTo(S, n - 1)
         IN  shorter \cup { Append(q, x) : q \in { r \in shorter : Len(r) = n - 1 }, x \in S }

\* A well-formed header with the given link flags.
HeaderWith(flags) ==
    ShellLinkHeader_into_bytes(
        [ShellLinkHeader_default(FileTime_default) EXCEPT !.link_flags = flags])

\* Headers, whole and damaged one field at a time, and files cut short.
HeaderInputs ==
    LET good == HeaderWith({IS_UNICODE})
        variants ==
            { Patch(Patch(Patch(Patch(Patch(good, 0, hs), 4, cl), 20, fl), 60, sc), 64, hk) :
                hs \in { write_u32(76), write_u32(77), write_u32(0) },
                cl \in { CLSID, Patch(CLSID, 15, << 71 >>) },
                fl \in { write_bits({IS_UNICODE}, 4), write_bits({}, 4), write_bits({27}, 4) },
                sc \in { write_u32(1), write_u32(2) },
                hk \in { << 0, 0 >>, << 65, 4 >>, << 1, 0 >>, << 65, 8 >> } }
    IN  variants
        \cup { SubSeq(good, 1, n) : n \in {0, 3, 75} }
        \cup { Patch(good, 24, write_bits({15}, 4)) }
        \cup { good \o extra : extra \in { << 0 >>, << 0, 0, 0 >>, << 0, 0, 0, 0 >> } }

\* 64-bit values at the ends of each limb's range; the top limb 32768 is
\* the first value outside [0, 2^63).
TimeValues ==
    { << a, b, c, e >> : a \in { 0, 1, 65535 }, b \in { 0, 1, 65535 },
                         c \in { 0, 1, 65535 }, e \in { 0, 32767, 32768 } }

\* Headers that carry a creation time, a file size and an icon index.
TimeInputs ==
    { Patch(Patch(Patch(Patch(HeaderWith({IS_UNICODE}), 28, u64_to_le_bytes(t)),
                        36, u64_to_le_bytes(<< 2, 0, 0, 0 >>)),
                  52, fs), 56, ii) :
        t \in TimeValues,
        fs \in { << 5, 0, 0, 0 >>, << 255, 255, 255, 255 >> },
        ii \in { << 7, 0, 0, 0 >>, << 255, 255, 255, 255 >> } }

\* The values FileTime::now() returns to ShellLinkHeader::default.
Clock ==
    { FileTime_default,
      FileTime_read(u64_to_le_bytes(<< 1, 65535, 0, 32767 >>), 0).val }

\* The bytes of an ItemID that declares `size`; size 2 is the value the
\* ItemID assertion rejects.
ItemBytes(size) ==
    IF size = 0 THEN << 0, 0 >>
    ELSE IF size = 2 THEN << 2, 0 >>
    ELSE write_u16(size) \o [i \in 1..(size - 2) |-> 170]

ItemSizes == {0, 2, 3, 4}

DropLast(q, n) == SubSeq(q, 1, IF Len(q) >= n THEN Len(q) - n ELSE 0)

\* Files with a target IDList: a declared length followed by any items.
IdListInputs ==
    { DropLast(HeaderWith({HAS_LINK_TARGET_ID_LIST, IS_UNICODE}) \o write_u16(n)
               \o Concat([i \in 1..Len(sizes) |-> ItemBytes(sizes[i])]), cut) :
        n \in 0..MaxBudget, sizes \in SeqsUpTo(ItemSizes, MaxItems), cut \in {0, 1} }

\* Files with StringData: every combination of the five flags, in both
\* encodings, slot i holding the one-character string <<64 + i>>; and names
\* whose declared count is larger than the two bytes that follow it.
StringInputs ==
    { DropLast(HeaderWith(F \cup U)
               \o Concat([i \in 1..5 |->
                    IF SlotFlag(i) \in F THEN to_data(<< 64 + i >>, U) ELSE << >>]), cut) :
        F \in SUBSET (HAS_NAME..HAS_ICON_LOCATION), U \in { {}, {IS_UNICODE} },
        cut \in {0, 1} }
    \cup { HeaderWith({HAS_NAME} \cup U) \o write_u16(count) \o << 65, 0 >> :
             count \in { 1, 32767, 32768, 32769, 65535 }, U \in { {}, {IS_UNICODE} } }

\* An ExtraData block as written: declared size, signature number, body.
Block(size, n, body) == write_u32(size) \o Sig(n) \o body

Text(n) == [i \in 1..n |-> IF i <= 3 THEN 64 + i ELSE 0]

BlockMenu ==
    { write_u32(0), write_u32(3), write_u32(4),
      Block(7, 4, << >>),
      Block(12, 4, << 228, 4, 0, 0 >>),
      Block(16, 4, Zeros(8)),
      Block(10, 4, Zeros(2)),
      Block(64, 4, Zeros(4)),
      Block(16, 5, << 3, 0, 0, 0, 32, 0, 0, 0 >>),
      Block(20, 5, Zeros(12)),
      Block(12, 5, Zeros(4)),
      Block(28, 11, Zeros(20)),
      Block(32, 11, Zeros(24)),
      Block(96, 3, Zeros(8) \o Text(80)),
      Block(100, 3, Zeros(8) \o Text(84)),
      Block(204, 2, Zeros(196)),
      Block(208, 2, Zeros(200)),
      Block(788, 1, Text(260) \o Text(520)),
      Block(792, 1, Text(260) \o Text(524)),
      Block(16, 1, Zeros(8)),
      Block(788, 6, Text(260) \o Text(520)),
      Block(784, 6, Text(260) \o Text(516)),
      Block(788, 7, Text(260) \o Text(520)),
      Block(792, 7, Text(260) \o Text(524)),
      Block(136, 8, Text(128)),
      Block(12, 9, Zeros(4)),
      Block(10, 10, << 0, 0 >>),
      Block(12, 12, Zeros(4)),
      Block(12, 0, Zeros(4)) }

\* Files with an ExtraData section.
ExtraDataInputs ==
    { HeaderWith({IS_UNICODE}) \o Concat(blocks) : blocks \in SeqsUpTo(BlockMenu, MaxBlocks) }

\* The body of a Console block with the given fill attributes, popup fill
\* attributes and font family, every other field zero.
ConsoleBody(fill, popup, font) ==
    write_u16(fill) \o write_u16(popup) \o Zeros(24) \o write_u32(font) \o Zeros(164)

\* Files with one block and the terminal block: an EnvironmentVariable,
\* Darwin or IconEnvironment block whose first 260 bytes are the letter 'A'
\* without a NUL, and a PropertyStore block that holds the byte 0xE9, a NUL,
\* 'X' and a NUL.
TrimInputs ==
    { HeaderWith({}) \o Block(788, n, [i \in 1..260 |-> 65] \o Text(520)) \o Zeros(4) :
        n \in { 1, 6, 7 } }
    \cup { HeaderWith({}) \o Block(12, 9, << 233, 0, 88, 0 >>) \o Zeros(4) }

\* Bodies of a VistaAndAboveIDList block, an IDList each: the terminator
\* alone, one ItemID of 4 or of 10 bytes and the terminator, two ItemIDs
\* and the terminator, and one ItemID of 10 bytes whose data holds the
\* bytes 00 00 at offset 4 and 04 00 at offset 8, and the terminator.
VistaBodies ==
    { ItemBytes(0),
      ItemBytes(4) \o ItemBytes(0),
      ItemBytes(10) \o ItemBytes(0),
      ItemBytes(4) \o ItemBytes(3) \o ItemBytes(0),
      << 10, 0, 170, 170, 0, 0, 170, 170, 4, 0 >> \o ItemBytes(0) }

\* Files with one VistaAndAboveIDList block and the terminal block.
VistaInputs ==
    { HeaderWith({}) \o Block(8 + Len(body), 10, body) \o Zeros(4) : body \in VistaBodies }

\* Files with one Console block and the terminal block: flag fields with
\* defined bits only, and with the undefined bits 0x0100 and 0x80.
ConsoleInputs ==
    { HeaderWith({}) \o Block(204, 2, ConsoleBody(fill, popup, font)) \o Zeros(4) :
        fill \in { 7, 263 }, popup \in { 240, 496 }, font \in { 49, 177 } }

\* A NUL-terminated string in the code page and in UTF-16LE.
Ansi(s) == s \o << 0 >>
Wide(s) == write_u16_into(s \o << 0 >>)

\* A VolumeID with the label "V": with the label offset 0x10, or with the
\* label offset 0x14 and the Unicode label offset that follows it.
VolumeIDBytes(wide) ==
    IF wide
    THEN write_u32(24) \o write_u32(3) \o write_u32(7) \o write_u32(20)
         \o write_u32(20) \o Wide(<< 86 >>)
    ELSE write_u32(18) \o write_u32(3) \o write_u32(7) \o write_u32(16)
         \o Ansi(<< 86 >>)

\* A CommonNetworkRelativeLink with net name "N" and device name "D", the
\* given flags and NetworkProviderType value; `wide` adds the two Unicode
\* offsets and strings.
CNRLBytes(wide, flags, provider) ==
    IF wide
    THEN write_u32(40) \o write_bits(flags, 4) \o write_u32(28) \o write_u32(30)
         \o write_u32(provider) \o write_u32(32) \o write_u32(36)
         \o Ansi(<< 78 >>) \o Ansi(<< 68 >>) \o Wide(<< 110 >>) \o Wide(<< 100 >>)
    ELSE write_u32(24) \o write_bits(flags, 4) \o write_u32(20) \o write_u32(22)
         \o write_u32(provider) \o Ansi(<< 78 >>) \o Ansi(<< 68 >>)

\* A VolumeID that carries two labels: "V" in the code page at offset
\* `off` and "W" in UTF-16LE behind it, at the offset the field after
\* volume_label_offset names.
VolumeIDTwoLabels(off) ==
    write_u32(off + 6) \o write_u32(3) \o write_u32(7) \o write_u32(off)
    \o write_u32(off + 2) \o Zeros(off - 20) \o Ansi(<< 86 >>) \o Wide(<< 87 >>)

\* A LinkInfo laid out as MS-SHLLINK describes it: header of H bytes, then
\* the parts its flags F call for (the VolumeID volume and the
\* CommonNetworkRelativeLink network), local base path "C" (Unicode "c"),
\* common path suffix "S" (Unicode "s"), a zero offset for every absent
\* part.  dl is added to the declared size, with as many padding bytes when
\* positive.
LinkInfoParts(H, F, volume, network, dl) ==
    LET hv == VOLUME_ID_AND_LOCAL_BASE_PATH \in F
        hn == COMMON_NETWORK_RELATIVE_LINK_AND_PATH_SUFFIX \in F
        vol == IF hv THEN volume ELSE << >>
        lbp == IF hv THEN Ansi(<< 67 >>) ELSE << >>
        net == IF hn THEN network ELSE << >>
        cps == Ansi(<< 83 >>)
        lbpu == IF H >= 36 /\ hv THEN Wide(<< 99 >>) ELSE << >>
        cpsu == IF H >= 36 THEN Wide(<< 115 >>) ELSE << >>
        o1 == H
        o2 == o1 + Len(vol)
        o3 == o2 + Len(lbp)
        o4 == o3 + Len(net)
        o5 == o4 + Len(cps)
        o6 == o5 + Len(lbpu)
        L == o6 + Len(cpsu)
    IN  write_u32(L + dl) \o write_u32(H) \o write_bits(F, 4)
        \o write_u32(IF hv THEN o1 ELSE 0) \o write_u32(IF hv THEN o2 ELSE 0)
        \o write_u32(IF hn THEN o3 ELSE 0) \o write_u32(o4)
        \o (IF H >= 36 THEN write_u32(IF hv THEN o5 ELSE 0) \o write_u32(o6) ELSE << >>)
        \o vol \o lbp \o net \o cps \o lbpu \o cpsu
        \o Zeros(IF dl > 0 THEN dl ELSE 0)

\* The LinkInfo whose VolumeID and CommonNetworkRelativeLink are both in the
\* code page or both carry Unicode offsets.
LinkInfoBytes(H, F, wide, cf, provider, dl) ==
    LinkInfoParts(H, F, VolumeIDBytes(wide), CNRLBytes(wide, cf, provider), dl)

\* The offset fields of a LinkInfo header of H bytes.
OffsetFields(H) == { 12, 16, 20, 24 } \cup (IF H >= 36 THEN { 28, 32 } ELSE {})

\* LinkInfo structures: laid out as described, with one offset field
\* replaced by zero or by the declared size, with flags that name an
\* undefined bit, with every combination of CommonNetworkRelativeLink
\* flags and NetworkProviderType values (Avid, the unassigned 0x280000, 0),
\* and with a VolumeID of two labels whose volume_label_offset is 0x14 or
\* 0x18.
LinkInfoMenu ==
    LET laid == { LinkInfoBytes(H, F, wide, { VALID_NET_TYPE }, 26 * 65536, dl) :
                    H \in { 28, 36 }, F \in SUBSET LinkInfoFlags, wide \in BOOLEAN,
                    dl \in { 0 - 1, 0, MaxPad } }
        patched == UNION { { Patch(li, off, write_u32(v)) :
                               off \in OffsetFields(read_u32(li, 4)),
                               v \in { 0, read_u32(li, 0) } } : li \in laid }
        typed == { LinkInfoBytes(H, F, FALSE, cf, provider, 0) :
                     H \in { 28, 36 },
                     F \in { G \in SUBSET LinkInfoFlags :
                               COMMON_NETWORK_RELATIVE_LINK_AND_PATH_SUFFIX \in G },
                     cf \in SUBSET CommonNetworkRelativeLinkFlags,
                     provider \in { 26 * 65536, 40 * 65536, 0 } }
        labelled == { LinkInfoParts(28, F, VolumeIDTwoLabels(off),
                                    CNRLBytes(FALSE, {}, 26 * 65536), 0) :
                        F \in { G \in SUBSET LinkInfoFlags :
                                  VOLUME_ID_AND_LOCAL_BASE_PATH \in G },
                        off \in { 20, 24 } }
    IN  laid \cup patched \cup typed \cup labelled
        \cup { Patch(li, 8, write_bits({ 2 }, 4)) : li \in typed }

\* Files with a LinkInfo followed by the name "A", whole and cut short.
LinkInfoInputs ==
    LET head == HeaderWith({ HAS_LINK_INFO, HAS_NAME })
        name == to_data(<< 65 >>, {})
    IN  { head \o li \o name : li \in LinkInfoMenu }
        \cup { head \o SubSeq(li, 1, n) :
                 li \in { LinkInfoBytes(28, LinkInfoFlags, FALSE, {}, 26 * 65536, 0) },
                 n \in { 0, 6, 14, 26, 30, 50 } }

\* Files with every section: an IDList of one ItemID and a terminator and a
\* LinkInfo, each if its flag is set, the flagged strings, and one
\* PropertyStore block followed by the terminal block.
FullInputs ==
    { HeaderWith(G \cup F \cup U)
      \o (IF HAS_LINK_TARGET_ID_LIST \in G
          THEN write_u16(5) \o ItemBytes(3) \o ItemBytes(0) ELSE << >>)
      \o (IF HAS_LINK_INFO \in G
          THEN LinkInfoBytes(28, { VOLUME_ID_AND_LOCAL_BASE_PATH }, FALSE, {}, 0, 0)
          ELSE << >>)
      \o Concat([i \in 1..5 |->
                   IF SlotFlag(i) \in F THEN to_data(<< 64 + i >>, U) ELSE << >>])
      \o Block(12, 9, Zeros(4)) \o Zeros(4) :
        G \in SUBSET { HAS_LINK_TARGET_ID_LIST, HAS_LINK_INFO },
        F \in SUBSET (HAS_NAME..HAS_ICON_LOCATION), U \in { {}, {IS_UNICODE} } }

FileInputs == HeaderInputs \cup TimeInputs \cup FullInputs \cup IdListInputs \cup StringInputs
              \cup ExtraDataInputs \cup LinkInfoInputs \cup ConsoleInputs
              \cup TrimInputs \cup VistaInputs

\* The scalar values strings are built from: 'A', U+00E9, U+20AC, U+1F600.
CharSet == { 65, 233, 8364, 128512 }

Strings == SeqsUpTo(CharSet, MaxStrLen)

-----------------------------------------------------------------------------
(* The state machine.                                                     *)

\* What new_simple learns from the file system: the file name "n" or "é",
\* and the parent "/" or "C:\".
FileNames == { << 110 >>, << 233 >> }
ParentPaths == { << 47 >>, << 67, 58, 92 >> }

\* A LinkInfo value handed to set_link_info: the one decoded from a LinkInfo
\* with neither flag.
LinkInfoValues == { LinkInfo_read(LinkInfoBytes(28, {}, FALSE, {}, 0, 0), 0).val }

\* The values the setters are called with: any string for the name, "A"
\* for the other strings, the default LinkTargetIdList, a LinkInfo; None
\* for each.
NameValues == { None } \cup { Some(x) : x \in Strings }
PathValues == { None, Some(<< 65 >>) }
IdListValues == { None, Some(LinkTargetIdList_default) }
LinkInfoOptions == { None } \cup { Some(x) : x \in LinkInfoValues }

\* Error values open returns to its caller.
ErrorValues == { "NotAShellLinkError", "AssertFail", "NoVariantMatch", "Io",
                 "PackingError" }

\* The repository holds two IdList::read_options, in linktarget.rs and in
\* idlist.rs.
IdListImpls == { "linktarget.rs", "idlist.rs" }

Init ==
    /\ \/ /\ pc = "build"
          /\ data = << >>
          /\ link \in { Some(ShellLink_default(now)) : now \in Clock }
          /\ made_by = "default"
          /\ result = "none"
          /\ idlist_impl = "linktarget.rs"
       \/ /\ pc = "build"
          /\ data = << >>
          /\ made_by = "new_simple"
          /\ \/ /\ link \in { Some(new_simple(now, is_dir, file_name, parent)) :
                                 now \in Clock, is_dir \in BOOLEAN,
                                 file_name \in FileNames, parent \in ParentPaths }
                /\ result = "none"
             \/ /\ link = None
                /\ result = "Io"
          /\ idlist_impl = "linktarget.rs"
       \/ /\ pc = "open"
          /\ data \in FileInputs
          /\ link = None
          /\ made_by = "none"
          /\ result = "none"
          /\ idlist_impl \in (IF data \in IdListInputs THEN IdListImpls
                              ELSE { "linktarget.rs" })
    /\ cursor = 0
    /\ header = None
    /\ linktarget_id_list = None
    /\ link_info = None
    /\ bytes_to_read = 0
    /\ item_id = None
    /\ item_id_list = << >>
    /\ consumed = 0
    /\ strs = NoStrings
    /\ slot = 1
    /\ extra_data = << >>
    /\ opened = None
    /\ written = None

openLocals == << written, cursor, header, linktarget_id_list, link_info, bytes_to_read, item_id,
                 item_id_list, consumed, strs, slot, extra_data >>

\* The setters of the five strings, called on the link made by
\* ShellLink::default(); a link made by new_simple is saved as it is
\* (examples/create_lnk.rs).
set_string_call(i, v) ==
    /\ pc = "build" /\ result = "none" /\ made_by = "default"
    /\ link' = Some(set_string(Unwrap(link), i, v))
    /\ UNCHANGED << data, pc, result, made_by, opened, idlist_impl, openLocals >>

set_name == \E v \in NameValues : set_string_call(1, v)
set_relative_path == \E v \in PathValues : set_string_call(2, v)
set_working_dir == \E v \in PathValues : set_string_call(3, v)
set_arguments == \E v \in PathValues : set_string_call(4, v)
set_icon_location == \E v \in PathValues : set_string_call(5, v)

set_linktarget_id_list ==
    /\ pc = "build" /\ result = "none" /\ made_by = "default"
    /\ \E v \in IdListValues :
         link' = Some(ShellLink_set_linktarget_id_list(Unwrap(link), v))
    /\ UNCHANGED << data, pc, result, made_by, opened, idlist_impl, openLocals >>

set_link_info ==
    /\ pc = "build" /\ result = "none" /\ made_by = "default"
    /\ \E v \in LinkInfoOptions :
         link' = Some(ShellLink_set_link_info(Unwrap(link), v))
    /\ UNCHANGED << data, pc, result, made_by, opened, idlist_impl, openLocals >>

\* link.header.update_link_flags(IS_UNICODE, value) on the public header
\* field of the link under construction.
update_link_flags ==
    /\ pc = "build" /\ result = "none" /\ made_by = "default"
    /\ \E value \in BOOLEAN :
         link' = Some([Unwrap(link) EXCEPT
                         !.header.link_flags = flags_set(@, IS_UNICODE, value)])
    /\ UNCHANGED << data, pc, result, made_by, opened, idlist_impl, openLocals >>

\* ShellLink::save, after which the caller opens the file it wrote.  A
\* panic in save leaves pc = "build".
save ==
    /\ pc = "build" /\ result = "none"
    /\ LET w == save_bytes(Unwrap(link))
       IN  IF w.res = "Ok"
           THEN data' = w.val /\ pc' = "open" /\ result' = result
           ELSE data' = data /\ pc' = pc /\ result' = w.res
    /\ UNCHANGED << link, made_by, opened, idlist_impl, openLocals >>

\* open returns Err(e), or panics when e = "panic"; pc keeps the section
\* in which it did.
Fail(e) ==
    /\ result' = e
    /\ pc' = pc
    /\ opened' = None

\* open without the length check of lib.rs 269-271: &data[0..0x4c] panics
\* on a shorter file.
unpack_header_unchecked(d) ==
    IF Len(d) < HeaderLen THEN Err("panic")
    ELSE ShellLinkHeader_read(Slice(d, 0, HeaderLen))

\* lib.rs 269-272: the length check and the decode of the first 0x4C bytes.
unpack_header(d) ==
    IF Len(d) < HeaderLen THEN Err("NotAShellLinkError")
    ELSE ShellLinkHeader_read(Slice(d, 0, HeaderLen))

\* lib.rs 261-275: read the file, check its length, decode the header.
open_header ==
    /\ pc = "open" /\ result = "none"
    /\ LET h == unpack_header(data)
       IN  IF h.res # "Ok"
           THEN Fail(h.res) /\ UNCHANGED << header, cursor >>
           ELSE /\ header' = Some(h.val)
                /\ cursor' = HeaderLen
                /\ pc' = "linktarget"
                /\ UNCHANGED << result, opened >>
    /\ UNCHANGED << data, link, made_by, linktarget_id_list, idlist_impl, link_info, written, bytes_to_read,
                    item_id, item_id_list, consumed, strs, slot, extra_data >>

link_flags == Unwrap(header).link_flags

\* lib.rs 277-282 and LinkTargetIdList: `size: u16`, then IdList with
\* args(size).
open_linktarget ==
    /\ pc = "linktarget" /\ result = "none"
    /\ IF HAS_LINK_TARGET_ID_LIST \notin link_flags
       THEN pc' = "linkinfo" /\ UNCHANGED << result, opened, bytes_to_read >>
       ELSE IF Len(data) - cursor < 2
            THEN Fail("Io") /\ UNCHANGED bytes_to_read
            ELSE /\ bytes_to_read' = read_u16(data, cursor)
                 /\ pc' = "idlist"
                 /\ UNCHANGED << result, opened >>
    /\ UNCHANGED << data, link, made_by, cursor, header, linktarget_id_list, idlist_impl, link_info,
                    written,
                    item_id, item_id_list, consumed, strs, slot, extra_data >>

\* The outcomes of `bytes_to_read -= size` on a u16: the difference, or,
\* when size is larger, a panic (overflow checks on) or the wrapped
\* difference (off).
sub_u16(a, b) ==
    IF b <= a THEN { [panic |-> FALSE, v |-> a - b] }
    ELSE { [panic |-> TRUE, v |-> 0], [panic |-> FALSE, v |-> a - b + 65536] }

\* The IdList is complete: lib.rs 283-285.
idlist_complete ==
    /\ linktarget_id_list' =
         Some([size |-> read_u16(data, cursor), id_list |-> item_id_list])
    /\ cursor' = cursor + read_u16(data, cursor) + 2
    /\ pc' = "linkinfo"
    /\ UNCHANGED << result, opened, bytes_to_read, item_id_list >>

idlist_fail(e) ==
    /\ Fail(e)
    /\ UNCHANGED << cursor, linktarget_id_list, bytes_to_read, item_id_list >>

\* One evaluation of `while bytes_to_read > 0` and of the loop body of
\* IdList::read_options; the stream stands at cursor + 2 + consumed.  The
\* two implementations differ in what they do with a zero-sized ItemID:
\* linktarget.rs executes assert_eq!(bytes_to_read, 2) and breaks; idlist.rs
\* breaks if bytes_to_read == 2 and otherwise goes on to the subtraction
\* and the push.
read_options_step(asserts) ==
    IF ~(bytes_to_read > 0)
    THEN idlist_complete /\ UNCHANGED << item_id, consumed >>
    ELSE IF bytes_to_read < 2
    THEN idlist_fail("AssertFail") /\ UNCHANGED << item_id, consumed >>
    ELSE LET read == ItemID_read(data, cursor + 2 + consumed)
         IN  IF read.res # "Ok"
             THEN idlist_fail(read.res) /\ UNCHANGED << item_id, consumed >>
             ELSE /\ item_id' = Some([size |-> read.val.size, data |-> read.val.data])
                  /\ consumed' = consumed + read.val.used
                  /\ IF read.val.size = 0 /\ bytes_to_read = 2
                     THEN idlist_complete
                     ELSE IF read.val.size = 0 /\ asserts
                     THEN idlist_fail("panic")
                     ELSE \E left \in sub_u16(bytes_to_read, read.val.size) :
                            IF left.panic
                            THEN idlist_fail("panic")
                            ELSE /\ bytes_to_read' = left.v
                                 /\ item_id_list' = Append(item_id_list, Unwrap(item_id'))
                                 /\ UNCHANGED << cursor, linktarget_id_list, pc,
                                                 result, opened >>

\* linktarget.rs: IdList::read_options.
IdList_read_options ==
    /\ pc = "idlist" /\ result = "none"
    /\ idlist_impl = "linktarget.rs"
    /\ read_options_step(TRUE)
    /\ UNCHANGED << data, link, made_by, header, idlist_impl, link_info, written, strs, slot,
                    extra_data >>

\* idlist.rs: IdList::read_options.
idlist_IdList_read_options ==
    /\ pc = "idlist" /\ result = "none"
    /\ idlist_impl = "idlist.rs"
    /\ read_options_step(FALSE)
    /\ UNCHANGED << data, link, made_by, header, idlist_impl, link_info, written, strs, slot,
                    extra_data >>

\* A decode of LinkInfo that leaves the cursor at the end of the last
\* field read instead of adding the declared size.
info_size_header_only(info) == info.link_info_header_size

\* lib.rs 294: `cursor += info.size as usize`; the size of the structure is
\* the field link_info_size.
info_size(info) == info.link_info_size

\* lib.rs 288-296: LinkInfo, decoded from &data[cursor..] when HAS_LINK_INFO
\* is set; the slice panics when the cursor is past the end of the file.
open_linkinfo ==
    /\ pc = "linkinfo" /\ result = "none"
    /\ IF HAS_LINK_INFO \notin link_flags
       THEN pc' = "strings" /\ UNCHANGED << result, opened, cursor, link_info >>
       ELSE IF cursor > Len(data)
       THEN Fail("panic") /\ UNCHANGED << cursor, link_info >>
       ELSE LET info == LinkInfo_read(data, cursor)
            IN  IF info.res # "Ok"
                THEN Fail(info.res) /\ UNCHANGED << cursor, link_info >>
                ELSE /\ link_info' = Some(info.val)
                     /\ cursor' = cursor + info_size(info.val)
                     /\ pc' = "strings"
                     /\ UNCHANGED << result, opened >>
    /\ UNCHANGED << data, link, made_by, header, linktarget_id_list, idlist_impl, written,
                    bytes_to_read, item_id, item_id_list, consumed, strs, slot,
                    extra_data >>

\* An open that goes on to ExtraData once it has looked at HAS_ARGUMENTS.
after_slot_four(i) == IF i >= 4 THEN "extradata" ELSE "strings"

\* lib.rs 304-346: the five `if link_flags.contains(..)` blocks follow one
\* another, and the ExtraData loop follows the fifth.
after_slot(i) == IF i = 5 THEN "extradata" ELSE "strings"

\* lib.rs 304-342: the StringData slot `slot`.  &data[cursor..] panics when
\* the cursor is past the end of the file.
open_stringdata ==
    /\ pc = "strings" /\ result = "none"
    /\ IF SlotFlag(slot) \notin link_flags
       THEN /\ UNCHANGED << strs, cursor, result, opened >>
            /\ slot' = slot + 1
            /\ pc' = after_slot(slot)
       ELSE IF cursor > Len(data)
       THEN Fail("panic") /\ UNCHANGED << strs, cursor, slot >>
       ELSE \E r \in SizedString_read(data, cursor, StringEncoding_from(link_flags)) :
              IF r.res # "Ok"
              THEN Fail(r.res) /\ UNCHANGED << strs, cursor, slot >>
              ELSE /\ strs' = [strs EXCEPT ![slot] = Some(r.val.string)]
                   /\ cursor' = cursor + r.val.len
                   /\ slot' = slot + 1
                   /\ pc' = after_slot(slot)
                   /\ UNCHANGED << result, opened >>
    /\ UNCHANGED << data, link, made_by, header, linktarget_id_list, idlist_impl, link_info,
                    written,
                    bytes_to_read, item_id, item_id_list, consumed, extra_data >>

\* lib.rs 361-373: the value open returns.
open_return ==
    /\ result' = "Ok"
    /\ pc' = pc
    /\ opened' = Some([ header |-> Unwrap(header),
                        linktarget_id_list |-> linktarget_id_list,
                        link_info |-> link_info,
                        strs |-> strs,
                        extra_data |-> extra_data ])

\* A loop that breaks on a zero block_size only.
is_terminal_zero(query) == query = 0

\* lib.rs 354-356: `if query < 0x04 { break; }`
is_terminal(query) == query < 4

\* lib.rs 346-359: one iteration of the ExtraData loop; when the loop
\* breaks, open returns (lib.rs 361-373).
open_extradata ==
    /\ pc = "extradata" /\ result = "none"
    /\ IF cursor > Len(data)
       THEN Fail("panic") /\ UNCHANGED << cursor, extra_data >>
       ELSE IF Len(data) - cursor < 4
       THEN open_return /\ UNCHANGED << cursor, extra_data >>
       ELSE LET query == read_u32(data, cursor)
            IN  IF is_terminal(query)
                THEN open_return /\ UNCHANGED << cursor, extra_data >>
                ELSE LET block == ExtraData_unpack_from_slice(From(data, cursor))
                     IN  IF block.res # "Ok"
                         THEN Fail(block.res) /\ UNCHANGED << cursor, extra_data >>
                         ELSE /\ extra_data' = Append(extra_data, block.val)
                              /\ cursor' = cursor + query
                              /\ UNCHANGED << pc, result, opened >>
    /\ UNCHANGED << data, link, made_by, header, linktarget_id_list, idlist_impl, link_info,
                    written,
                    bytes_to_read, item_id, item_id_list, consumed, strs, slot >>

\* ShellLink::save called on the value open returned: the bytes written,
\* or the panic.
save_opened ==
    /\ pc # "build" /\ result = "Ok"
    /\ IsSome(opened) /\ ~IsSome(written)
    /\ written' = Some(save_bytes(Unwrap(opened)))
    /\ UNCHANGED << data, pc, result, link, made_by, opened, idlist_impl, cursor, header,
                    linktarget_id_list, link_info, bytes_to_read, item_id,
                    item_id_list, consumed, strs, slot, extra_data >>

Next ==
    \/ set_name
    \/ set_relative_path
    \/ set_working_dir
    \/ set_arguments
    \/ set_icon_location
    \/ set_linktarget_id_list
    \/ set_link_info
    \/ update_link_flags
    \/ save
    \/ open_header
    \/ open_linktarget
    \/ IdList_read_options
    \/ idlist_IdList_read_options
    \/ open_linkinfo
    \/ open_stringdata
    \/ open_extradata
    \/ save_opened

Spec == Init /\ [][Next]_vars

-----------------------------------------------------------------------------
(* Properties of open and save.                                           *)

\* open has returned or panicked.
returned == pc # "build" /\ result # "none"

header_size_field == read_u32(data, 0)
clsid_field == Slice(data, 4, 20)

\* C1: no input whose header size field is not 0x4C or whose CLSID is not
\* the Shell Link CLSID yields a decoded ShellLink.
C1_BadHeaderNeverDecoded ==
    (returned /\ Len(data) >= HeaderLen
       /\ (header_size_field # HeaderLen \/ clsid_field # CLSID))
    => opened = None

\* open returned a ShellLink for a 0x4C-byte file whose header size field is
\* 0x4D.
C1_Witness ==
    /\ returned
    /\ Len(data) = HeaderLen
    /\ header_size_field = HeaderLen + 1
    /\ clsid_field = CLSID
    /\ IsSome(opened)

\* C2: on a file shorter than 0x4C bytes, or whose header the decoder
\* refuses, open returns an error value: it does not panic and returns no
\* ShellLink.
C2_NoPanicOnNonShellLink ==
    (returned
       /\ (Len(data) < HeaderLen
           \/ ShellLinkHeader_read(Slice(data, 0, HeaderLen)).res # "Ok"))
    => (result \in ErrorValues /\ opened = None)

\* A file of full length whose CLSID is wrong was given to open, and open
\* has returned.
C2_Witness ==
    /\ returned
    /\ Len(data) >= HeaderLen
    /\ clsid_field # CLSID
    /\ result \in ErrorValues

\* C3: in every ShellLink open returns, each of name, relative_path,
\* working_dir, command_line_arguments, icon_location is Some exactly when
\* HAS_NAME, HAS_RELATIVE_PATH, HAS_WORKING_DIR, HAS_ARGUMENTS,
\* HAS_ICON_LOCATION is set in the decoded link flags.
C3_SlotPresentIffFlag ==
    IsSome(opened) =>
        LET sl == Unwrap(opened)
            flag == << HAS_NAME, HAS_RELATIVE_PATH, HAS_WORKING_DIR, HAS_ARGUMENTS,
                       HAS_ICON_LOCATION >>
        IN  \A i \in 1..5 : IsSome(sl.strs[i]) <=> flag[i] \in sl.header.link_flags

\* open returned a link read from a file with HAS_NAME and HAS_WORKING_DIR
\* set and HAS_RELATIVE_PATH clear.
C3_Witness ==
    /\ IsSome(opened)
    /\ link = None
    /\ IsSome(Unwrap(opened).strs[1])
    /\ ~IsSome(Unwrap(opened).strs[2])
    /\ IsSome(Unwrap(opened).strs[3])
    /\ HAS_RELATIVE_PATH \notin Unwrap(opened).header.link_flags

\* C4: a default ShellLink on which only set_name(Some(s)) put a string,
\* saved and opened again, has name() = Some(s), whatever IS_UNICODE is.
C4_NameRoundTrip ==
    (returned /\ IsSome(link)
       /\ IsSome(Unwrap(link).strs[1])
       /\ \A i \in 2..5 : ~IsSome(Unwrap(link).strs[i]))
    => (result = "Ok" /\ Unwrap(opened).strs[1] = Unwrap(link).strs[1])

\* With IS_UNICODE clear the name U+20AC was saved, and open returned the
\* name U+00AC.
C4_Witness ==
    /\ returned
    /\ IsSome(link)
    /\ IS_UNICODE \notin Unwrap(link).header.link_flags
    /\ Unwrap(link).strs[1] = Some(<< 8364 >>)
    /\ IsSome(opened)
    /\ Unwrap(opened).strs[1] = Some(<< 172 >>)

\* C5: an iteration of the ExtraData loop ends the loop normally exactly
\* when fewer than 4 bytes remain or the block_size read is below 4; an
\* iteration after which the loop goes on has moved the cursor forward by
\* at least 4 bytes without passing the end of the file, so the bytes left
\* strictly decrease and the loop terminates; on a zero block_size the loop
\* does not go on.
C5_ExtraDataLoop ==
    [][ (pc = "extradata" /\ result = "none" /\ cursor <= Len(data)) =>
          /\ (result' = "Ok")
               <=> (Len(data) - cursor < 4 \/ read_u32(data, cursor) < 4)
          /\ (result' = "none") =>
               (cursor' >= cursor + 4 /\ cursor' <= Len(data)
                  /\ Len(extra_data') = Len(extra_data) + 1)
          /\ (Len(data) - cursor >= 4 /\ read_u32(data, cursor) = 0) =>
               (result' = "Ok" /\ cursor' = cursor /\ extra_data' = extra_data)
      ]_vars

\* The loop decoded a block and then ended on a zero block_size.
C5_Witness ==
    /\ pc = "extradata"
    /\ result = "Ok"
    /\ Len(extra_data) = 1
    /\ Len(data) - cursor >= 4
    /\ read_u32(data, cursor) = 0

\* The block the ExtraData loop stands on: its declared size and signature.
block_size_field == read_u32(data, cursor)
signature_field == Slice(data, cursor + 4, cursor + 8)
whole_block == /\ pc = "extradata"
               /\ Len(data) - cursor >= 8
               /\ block_size_field >= 8
               /\ block_size_field <= Len(data) - cursor

\* C6: when the ExtraData loop meets a block, whole in the file, whose
\* signature is none of the eleven known ones, open returns the error
\* value UnknownExtraData.
C6_UnknownSignatureIsError ==
    (returned /\ whole_block /\ signature_field \notin KnownSignatures
       /\ result # "Ok")
    => result = "UnknownExtraData"

\* open panicked on a whole 12-byte block with signature 0xA000000C.
C6_Witness ==
    /\ returned
    /\ whole_block
    /\ block_size_field = 12
    /\ signature_field = Sig(12)
    /\ result = "panic"

\* The sizes MS-SHLLINK fixes for the blocks of fixed size, by signature.
FixedSize(sig) ==
    CASE sig = Sig(1) -> 788
      [] sig = Sig(2) -> 204
      [] sig = Sig(3) -> 96
      [] sig = Sig(4) -> 12
      [] sig = Sig(5) -> 16
      [] sig = Sig(6) -> 788
      [] sig = Sig(7) -> 788
      [] sig = Sig(11) -> 28

FixedSizeSignatures == { Sig(n) : n \in {1, 2, 3, 4, 5, 6, 7, 11} }

\* C7: a block with the signature of a fixed-size kind and another
\* block_size is never decoded into extra_data.
C7_WrongSizeRejected ==
    (whole_block /\ result = "none"
       /\ signature_field \in FixedSizeSignatures
       /\ block_size_field # FixedSize(signature_field))
    => ExtraData_unpack_from_slice(From(data, cursor)).res # "Ok"

\* An EnvironmentVariable block with block_size 0x318 was decoded into
\* extra_data.
C7_Witness ==
    /\ pc = "extradata"
    /\ Len(extra_data) = 1
    /\ extra_data[1].kind = "EnvironmentProps"
    /\ read_u32(data, HeaderLen) = 792
    /\ cursor = HeaderLen + 792

\* C8: after the target IDList with declared length N is decoded, the
\* ItemIDs and the terminator took exactly N bytes from the stream, and
\* the next section starts at header end + 2 + N.
C8_ExtentClosure ==
    IsSome(linktarget_id_list) =>
        /\ consumed = Unwrap(linktarget_id_list).size
        /\ (pc = "linkinfo" => cursor = HeaderLen + 2 + consumed)

\* An IDList of declared length 4 was decoded after 6 bytes were read: a
\* zero-sized ItemID that was pushed, then a 4-byte ItemID.
C8_Witness ==
    /\ IsSome(linktarget_id_list)
    /\ Unwrap(linktarget_id_list).size = 4
    /\ consumed = 6
    /\ Len(Unwrap(linktarget_id_list).id_list) = 2
    /\ cursor = HeaderLen + 2 + 4

\* C9: a zero-sized ItemID read while more than 2 bytes of budget remain
\* completes the list: the decode succeeds and the entry is not in the list.
C9_ZeroSizeEndsList ==
    (IsSome(item_id) /\ Unwrap(item_id).size = 0 /\ bytes_to_read > 2)
    => (IsSome(linktarget_id_list) /\ result # "panic"
          /\ \A i \in 1..Len(item_id_list) : item_id_list[i].size # 0)

\* With a budget of 4 the first ItemID read had size 0, and open panicked.
C9_Witness ==
    /\ pc = "idlist"
    /\ IsSome(item_id)
    /\ Unwrap(item_id).size = 0
    /\ bytes_to_read = 4
    /\ consumed = 2
    /\ result = "panic"

\* C10: an IDList decode that read at least one ItemID succeeds only if the
\* last thing it read was the zero-sized terminator.
C10_NoTerminatorRejected ==
    (IsSome(linktarget_id_list) /\ Unwrap(linktarget_id_list).id_list # << >>)
    => Unwrap(item_id).size = 0

\* An IDList of declared length 3 holding one 3-byte ItemID and no
\* terminator was decoded.
C10_Witness ==
    /\ IsSome(linktarget_id_list)
    /\ Unwrap(linktarget_id_list).size = 3
    /\ Len(Unwrap(linktarget_id_list).id_list) = 1
    /\ Unwrap(item_id).size = 3
    /\ consumed = 3

-----------------------------------------------------------------------------
(* Properties of the LinkInfo decode.                                     *)

\* The LinkInfo open decoded, and its two flags.
info == Unwrap(link_info)
has_volume_id == VOLUME_ID_AND_LOCAL_BASE_PATH \in info.link_info_flags
has_network_link == COMMON_NETWORK_RELATIVE_LINK_AND_PATH_SUFFIX \in info.link_info_flags

\* An offset is zero with its owning flag clear, or lies strictly between
\* zero and the declared size.
offset_sound(flag_set, offset) ==
    (offset = 0 /\ ~flag_set) \/ (0 < offset /\ offset < info.link_info_size)

\* C11: after every successful LinkInfo decode each offset that was read
\* (the four plain offsets and, when present, the two Unicode ones) is zero
\* with its owning flag clear, or satisfies 0 < offset < link_info_size.
C11_OffsetsSound ==
    IsSome(link_info) =>
        /\ offset_sound(has_volume_id, info.volume_id_offset)
        /\ offset_sound(has_volume_id, info.local_base_path_offset)
        /\ offset_sound(has_network_link, info.common_network_relative_link_offset)
        /\ offset_sound(has_network_link, info.common_path_suffix_offset)
        /\ IsSome(info.local_base_path_offset_unicode) =>
               offset_sound(has_volume_id, Unwrap(info.local_base_path_offset_unicode))
        /\ IsSome(info.common_path_suffix_offset_unicode) =>
               offset_sound(has_network_link,
                            Unwrap(info.common_path_suffix_offset_unicode))

\* A LinkInfo was decoded whose common_path_suffix_offset is zero while
\* CommonNetworkRelativeLinkAndPathSuffix is set.
C11_Witness ==
    /\ IsSome(link_info)
    /\ has_network_link
    /\ info.common_path_suffix_offset = 0
    /\ info.link_info_header_size = 28

\* C12: a successful LinkInfo decode that starts at B with declared size L
\* leaves the stream at B + L, and open goes on to StringData with its
\* cursor at B + L.
C12_LinkInfoExtent ==
    [][ (pc = "linkinfo" /\ HAS_LINK_INFO \in link_flags /\ pc' = "strings") =>
            /\ Unwrap(link_info').start_offset = cursor
            /\ Unwrap(link_info').next = cursor + read_u32(data, cursor)
            /\ cursor' = cursor + read_u32(data, cursor)
            /\ slot' = 1 ]_vars

\* open decoded a LinkInfo with padding inside its declared size and then
\* read the name that follows it.
C12_Witness ==
    /\ result = "Ok"
    /\ IsSome(link_info)
    /\ info.link_info_size = Len(data) - HeaderLen - 3
    /\ data[Len(data) - 3] = 0 /\ data[Len(data) - 4] = 0
    /\ strs[1] = Some(<< 65 >>)

-----------------------------------------------------------------------------
(* Properties of the header's fields.                                     *)

\* The file is a default header in all but its timestamps, file size and
\* icon index.
carries_times == Len(data) = HeaderLen /\ Patch(data, 28, Zeros(32)) = HeaderWith({IS_UNICODE})

\* C13: for every 64-bit t below 2^63, decoding the eight little-endian
\* bytes of t as a FILETIME succeeds, and converting the decoded value back
\* to a u64 returns t.
C13_FileTimeRoundTrip ==
    (pc # "build" /\ carries_times) =>
        \A t \in { v \in TimeValues : v[4] < 32768 } :
            Slice(data, 28, 36) = u64_to_le_bytes(t) =>
                /\ FileTime_read(data, 28).res = "Ok"
                /\ pc = "open" => result = "none"
                /\ IsSome(header) => FileTime_into_u64(Unwrap(header).creation_time) = t

\* open decoded a header whose creation time is 2^63 - 1.
C13_Witness ==
    /\ result = "Ok"
    /\ carries_times
    /\ Slice(data, 28, 36) = << 255, 255, 255, 255, 255, 255, 255, 127 >>
    /\ FileTime_into_u64(Unwrap(opened).header.creation_time) = << 65535, 65535, 65535, 32767 >>

-----------------------------------------------------------------------------
(* Properties of StringData, of save and of the order of the sections.    *)

\* The count field of the StringData slot open is about to read.
count_field == read_u16(data, cursor)

\* C14: reading a StringData slot never panics on the count, and a slot
\* that is read consumes exactly 2 + count bytes in the code page and
\* 2 + 2 * count bytes in UTF-16LE, for every 16-bit count.
C14_SizedStringExtent ==
    [][ (/\ pc = "strings"
         /\ SlotFlag(slot) \in link_flags
         /\ cursor + 2 <= Len(data)) =>
            /\ result' # "panic"
            /\ slot' = slot + 1 =>
                  cursor' = cursor + 2 + (IF IS_UNICODE \in link_flags
                                           THEN 2 * count_field ELSE count_field) ]_vars

\* A name with the count 0x8000 was read under IS_UNICODE as the empty
\* string from a file that holds two bytes after the count.
C14_Witness ==
    /\ result = "Ok"
    /\ IS_UNICODE \in link_flags
    /\ Len(data) = HeaderLen + 4
    /\ read_u16(data, HeaderLen) = 32768
    /\ strs[1] = Some(<< >>)

\* The fields of a header that emission writes.
emitted_fields(h) ==
    << h.link_flags, h.file_attributes, h.creation_time, h.access_time,
       h.write_time, h.file_size, h.icon_index, h.show_command, h.hotkey >>

\* C15: the 0x4C bytes emitted for a header start with the size 0x4C and
\* the CLSID, carry the hotkey key in byte 64 and its modifiers in byte 65,
\* end with ten zero bytes, and decode back to the same link_flags,
\* file_attributes, timestamps, file_size, icon_index, show_command and
\* hotkey; a header saved from a link is decoded by open with these fields.
\* Stated of the header open has just decoded (pc = "linktarget"), which
\* no later step changes.
C15_HeaderRoundTrip ==
    /\ pc = "linktarget" =>
         LET h == Unwrap(header)
             bytes == ShellLinkHeader_into_bytes(h)
             back == ShellLinkHeader_read(bytes)
         IN  /\ Len(bytes) = 76
             /\ read_u32(bytes, 0) = 76
             /\ Slice(bytes, 4, 20) = CLSID
             /\ bytes[65] = h.hotkey.low_byte
             /\ bytes[66] = SumPow(h.hotkey.high_byte)
             /\ Slice(bytes, 66, 76) = Zeros(10)
             /\ back.res = "Ok"
             /\ emitted_fields(back.val) = emitted_fields(h)
    /\ (pc = "linktarget" /\ IsSome(link)) =>
         emitted_fields(Unwrap(header)) = emitted_fields(Unwrap(link).header)

\* open decoded a header with the hotkey Alt+A, and the emission of the
\* decoded header is the file it was read from.
C15_Witness ==
    /\ result = "Ok"
    /\ Unwrap(header).hotkey = [low_byte |-> 65, high_byte |-> {2}]
    /\ ShellLinkHeader_into_bytes(Unwrap(header)) = data

\* Every component whose flag is set in the link is there to be written.
components_present(sl) ==
    /\ HAS_LINK_TARGET_ID_LIST \in sl.header.link_flags => IsSome(sl.linktarget_id_list)
    /\ HAS_LINK_INFO \in sl.header.link_flags => IsSome(sl.link_info)
    /\ \A i \in 1..5 : SlotFlag(i) \in sl.header.link_flags => IsSome(sl.strs[i])

\* From position cur on, out holds the StringData of the slots i..5 whose
\* flag is set, in that order, and nothing after them.
RECURSIVE strings_from(_, _, _, _)
strings_from(sl, out, i, cur) ==
    IF i > 5 THEN cur = Len(out)
    ELSE IF SlotFlag(i) \notin sl.header.link_flags THEN strings_from(sl, out, i + 1, cur)
    ELSE LET piece == to_data(Unwrap(sl.strs[i]), sl.header.link_flags)
         IN  /\ cur + Len(piece) <= Len(out)
             /\ Slice(out, cur, cur + Len(piece)) = piece
             /\ strings_from(sl, out, i + 1, cur + Len(piece))

\* out is the header of sl followed by its flagged strings and no other
\* byte.
header_then_strings(sl, out) ==
    /\ Len(out) >= HeaderLen
    /\ Slice(out, 0, HeaderLen) = ShellLinkHeader_into_bytes(sl.header)
    /\ strings_from(sl, out, 1, HeaderLen)

\* C16: save writes the header, then the target IDList, the LinkInfo and the
\* five strings in decode order, each optional component exactly when its
\* flag is set, and no ExtraData bytes; so a link whose flagged components
\* are present is saved without a failure, and a link with only string
\* flags is saved as its header followed by its flagged strings whatever its
\* extra_data holds.
C16_EmissionOrder ==
    /\ (IsSome(link) /\ pc # "build") => header_then_strings(Unwrap(link), data)
    /\ IsSome(written) =>
         LET sl == Unwrap(opened)
             w == Unwrap(written)
         IN  components_present(sl) =>
                /\ w.res = "Ok"
                /\ ({ HAS_LINK_TARGET_ID_LIST, HAS_LINK_INFO } \cap sl.header.link_flags = {}) =>
                       header_then_strings(sl, w.val)

\* What save fulfils: a link that sets neither HAS_LINK_TARGET_ID_LIST nor
\* HAS_LINK_INFO is written as its header followed by its flagged strings.
save_strings_only ==
    /\ (IsSome(link) /\ pc # "build") => header_then_strings(Unwrap(link), data)
    /\ (/\ IsSome(written)
        /\ { HAS_LINK_TARGET_ID_LIST, HAS_LINK_INFO } \cap Unwrap(opened).header.link_flags = {}) =>
           /\ Unwrap(written).res = "Ok"
           /\ header_then_strings(Unwrap(opened), Unwrap(written).val)

\* save was called on a link open returned with a decoded LinkInfo, and
\* panicked.
C16_Witness ==
    /\ IsSome(written)
    /\ IsSome(Unwrap(opened).link_info)
    /\ Unwrap(written).res = "panic"

\* save was called on a link with two ExtraData blocks and wrote the header
\* alone.
save_left_out_extra_data ==
    /\ IsSome(written)
    /\ Len(Unwrap(opened).extra_data) = 2
    /\ Unwrap(written) = Ok(ShellLinkHeader_into_bytes(Unwrap(opened).header))

\* The sections of a file in the order open decodes them.
section_rank(p) ==
    CASE p = "open" -> 0
      [] p = "linktarget" -> 1
      [] p = "idlist" -> 1
      [] p = "linkinfo" -> 2
      [] p = "strings" -> 3
      [] p = "extradata" -> 4
      [] OTHER -> 0 - 1

\* C17: open decodes the header, then the target IDList if its flag is set,
\* then the LinkInfo if its flag is set, then the five strings in slot
\* order, then ExtraData; every section is decoded at the cursor the
\* sections before it left, and a section whose flag is clear leaves the
\* cursor where it is.
C17_SectionOrder ==
    [][ (pc # "build" /\ result = "none") =>
          /\ section_rank(pc') \in { section_rank(pc), section_rank(pc) + 1 }
          /\ pc = "open" =>
                (pc' = "linktarget" => cursor' = HeaderLen)
          /\ pc = "linktarget" =>
                /\ cursor' = cursor
                /\ HAS_LINK_TARGET_ID_LIST \notin link_flags =>
                       pc' = "linkinfo" /\ linktarget_id_list' = None
                /\ pc' = "idlist" =>
                       /\ HAS_LINK_TARGET_ID_LIST \in link_flags
                       /\ bytes_to_read' = read_u16(data, cursor)
          /\ (pc = "idlist" /\ pc' = "linkinfo") =>
                /\ IsSome(linktarget_id_list')
                /\ cursor' = cursor + 2 + read_u16(data, cursor)
          /\ (pc = "idlist" /\ pc' = "idlist") => cursor' = cursor
          /\ pc = "linkinfo" =>
                /\ HAS_LINK_INFO \notin link_flags =>
                       pc' = "strings" /\ cursor' = cursor /\ link_info' = None
                /\ (HAS_LINK_INFO \in link_flags /\ pc' = "strings") =>
                       /\ LinkInfo_read(data, cursor) = Ok(Unwrap(link_info'))
                       /\ cursor' >= cursor
          /\ pc = "strings" =>
                /\ SlotFlag(slot) \notin link_flags =>
                       /\ cursor' = cursor /\ strs' = strs /\ strs[slot] = None
                       /\ slot' = slot + 1
                /\ (SlotFlag(slot) \in link_flags /\ result' = "none") =>
                       /\ slot' = slot + 1
                       /\ \E r \in SizedString_read(data, cursor,
                                                   StringEncoding_from(link_flags)) :
                             /\ r.res = "Ok"
                             /\ strs' = [strs EXCEPT ![slot] = Some(r.val.string)]
                             /\ cursor' = cursor + r.val.len
                /\ pc' = "extradata" <=> (slot = 5 /\ result' = "none")
          /\ pc = "extradata" =>
                /\ strs' = strs /\ link_info' = link_info
                /\ linktarget_id_list' = linktarget_id_list
                /\ cursor' >= cursor ]_vars

\* open returned a link decoded from a file that holds an IDList, a
\* LinkInfo, all five strings and an ExtraData block, with the cursor at the
\* terminal block.
C17_Witness ==
    /\ result = "Ok"
    /\ IsSome(linktarget_id_list) /\ IsSome(link_info)
    /\ \A i \in 1..5 : strs[i] = Some(<< 64 + i >>)
    /\ Len(extra_data) = 1
    /\ cursor = Len(data) - 4

\* The LinkInfo that starts at open's cursor: its declared size, header
\* size, flags and the offset field at `off`.
li_size == read_u32(data, cursor)
li_header_size == read_u32(data, cursor + 4)
li_flags == read_bits(data, cursor + 8, 4)
li_offset(off) == read_u32(data, cursor + off)

\* The offset field at `off` obeys the invariant for the flag that owns it.
li_offset_sound(flag, off) ==
    (li_offset(off) = 0 /\ flag \notin li_flags)
    \/ (0 < li_offset(off) /\ li_offset(off) < li_size)

\* The file holds a whole LinkInfo header at the cursor, with defined flags
\* and with every offset it carries obeying the invariant.
li_offsets_sound ==
    /\ cursor + 28 <= Len(data)
    /\ li_header_size \in { 28, 36 }
    /\ cursor + li_header_size <= Len(data)
    /\ li_flags \subseteq LinkInfoFlags
    /\ li_offset_sound(VOLUME_ID_AND_LOCAL_BASE_PATH, 12)
    /\ li_offset_sound(VOLUME_ID_AND_LOCAL_BASE_PATH, 16)
    /\ li_offset_sound(COMMON_NETWORK_RELATIVE_LINK_AND_PATH_SUFFIX, 20)
    /\ li_offset_sound(COMMON_NETWORK_RELATIVE_LINK_AND_PATH_SUFFIX, 24)
    /\ li_header_size >= 36 =>
          /\ li_offset_sound(VOLUME_ID_AND_LOCAL_BASE_PATH, 28)
          /\ li_offset_sound(COMMON_NETWORK_RELATIVE_LINK_AND_PATH_SUFFIX, 32)

\* C18: a LinkInfo whose offsets obey the invariants is not rejected by the
\* offset validation: open does not end with an assertion failure in the
\* LinkInfo section, in particular not for a zero Unicode offset whose flag
\* is clear in a structure with link_info_header_size >= 0x24.
C18_ZeroOffsetAccepted ==
    (/\ pc = "linkinfo"
     /\ HAS_LINK_INFO \in link_flags
     /\ li_offsets_sound) => result # "AssertFail"

\* open rejected a LinkInfo with header size 0x24 in which only
\* VolumeIDAndLocalBasePath is set, the offsets of that flag are in range
\* and common_path_suffix_offset_unicode is zero.
C18_Witness ==
    /\ pc = "linkinfo" /\ result = "AssertFail"
    /\ li_offsets_sound
    /\ li_header_size = 36
    /\ li_flags = { VOLUME_ID_AND_LOCAL_BASE_PATH }
    /\ li_offset(32) = 0

\* The NUL-terminated string of the file at offset `off` of the decoded
\* LinkInfo, in the given encoding.
string_at(off, encoding) ==
    NullTerminatedString_read(data, info.start_offset + off, encoding)

\* C19: in a decoded LinkInfo with VolumeIDAndLocalBasePath set,
\* local_base_path is the code-page string at local_base_path_offset, and
\* local_base_path_unicode is present exactly when link_info_header_size is
\* at least 0x24, and is then the UTF-16LE string at
\* local_base_path_offset_unicode.
C19_LocalBasePath ==
    (IsSome(link_info) /\ has_volume_id) =>
        /\ string_at(info.local_base_path_offset, "CodePage").res = "Ok"
        /\ info.local_base_path =
               Some(string_at(info.local_base_path_offset, "CodePage").val.string)
        /\ IsSome(info.local_base_path_unicode) <=> info.link_info_header_size >= 36
        /\ info.link_info_header_size >= 36 =>
               /\ string_at(Unwrap(info.local_base_path_offset_unicode), "Unicode").res = "Ok"
               /\ info.local_base_path_unicode =
                      Some(string_at(Unwrap(info.local_base_path_offset_unicode),
                                     "Unicode").val.string)

\* A LinkInfo with header size 0x24 was decoded whose local_base_path is
\* "c", the Unicode string, while the code-page string at
\* local_base_path_offset is "C".
C19_Witness ==
    /\ IsSome(link_info) /\ has_volume_id
    /\ info.link_info_header_size = 36
    /\ info.local_base_path = Some(<< 99 >>)
    /\ string_at(info.local_base_path_offset, "CodePage") =
           Ok([string |-> << 67 >>, next |-> info.start_offset + info.local_base_path_offset + 2])

\* A LinkInfo with header size 0x1C was decoded whose
\* local_base_path_unicode is present and holds the code-page string.
local_base_path_unicode_without_offset ==
    /\ IsSome(link_info) /\ has_volume_id
    /\ info.link_info_header_size = 28
    /\ info.local_base_path_unicode = Some(<< 67 >>)

\* The CommonNetworkRelativeLink of the LinkInfo at open's cursor: where it
\* starts, its flags and its NetworkProviderType field.
cnrl_start == cursor + li_offset(20)
cnrl_flags == read_bits(data, cnrl_start + 4, 4)
cnrl_provider_field == read_u32(data, cnrl_start + 16)

\* The file holds, at the cursor, a LinkInfo with header size 0x1C laid out
\* with a CommonNetworkRelativeLink of 24 bytes whose flags are defined.
cnrl_well_formed ==
    /\ pc = "linkinfo"
    /\ HAS_LINK_INFO \in link_flags
    /\ data \in { HeaderWith({ HAS_LINK_INFO, HAS_NAME })
                  \o LinkInfoBytes(H, F, FALSE, cf, provider, 0)
                  \o to_data(<< 65 >>, {}) :
                    H \in { 28 },
                    F \in { { COMMON_NETWORK_RELATIVE_LINK_AND_PATH_SUFFIX }, LinkInfoFlags },
                    cf \in SUBSET CommonNetworkRelativeLinkFlags,
                    provider \in { 26 * 65536, 40 * 65536, 0 } }

\* C20: the NetworkProviderType field of a CommonNetworkRelativeLink is
\* interpreted only when ValidNetType is set: with the flag clear the
\* decode succeeds whatever the field holds and network_provider_type is
\* None; with the flag set a value outside the enumeration fails the decode.
C20_ProviderTypeGated ==
    /\ cnrl_well_formed =>
          /\ VALID_NET_TYPE \notin cnrl_flags => result = "none"
          /\ (/\ VALID_NET_TYPE \in cnrl_flags
              /\ cnrl_provider_field \notin NetworkProviderType) => result # "none"
    /\ (IsSome(link_info) /\ has_network_link) =>
          LET net_link == Unwrap(info.common_network_relative_link)
          IN  IF VALID_NET_TYPE \in net_link.flags
              THEN /\ IsSome(net_link.network_provider_type)
                   /\ Unwrap(net_link.network_provider_type) \in NetworkProviderType
              ELSE net_link.network_provider_type = None

\* open failed on a CommonNetworkRelativeLink whose ValidNetType is clear
\* and whose NetworkProviderType field is zero.
C20_Witness ==
    /\ cnrl_well_formed
    /\ VALID_NET_TYPE \notin cnrl_flags
    /\ cnrl_provider_field = 0
    /\ result = "NoVariantMatch"

\* The VolumeID of the decoded LinkInfo, and the value of a field of its
\* header in the file.
volume == Unwrap(info.volume_id)
volume_field(off) == read_u32(data, volume.start_offset + off)

\* The file holds, at the cursor, a LinkInfo with header size 0x1C, both
\* flags, and a VolumeID laid out with one or two labels.
volume_id_laid_out ==
    /\ pc = "linkinfo"
    /\ HAS_LINK_INFO \in link_flags
    /\ data \in { HeaderWith({ HAS_LINK_INFO, HAS_NAME })
                  \o LinkInfoParts(28, LinkInfoFlags, vol,
                                   CNRLBytes(FALSE, {}, 26 * 65536), 0)
                  \o to_data(<< 65 >>, {}) :
                    vol \in { VolumeIDBytes(FALSE), VolumeIDBytes(TRUE),
                              VolumeIDTwoLabels(20), VolumeIDTwoLabels(24) } }

\* C21: in a decoded VolumeID, volume_label_offset_unicode is present
\* exactly when volume_label_offset is 0x14; the label is then the UTF-16LE
\* string at VolumeID start + volume_label_offset_unicode, and otherwise the
\* code-page string at VolumeID start + volume_label_offset.  A LinkInfo
\* laid out with such a VolumeID is decoded.
C21_VolumeLabel ==
    /\ volume_id_laid_out => result = "none"
    /\ (IsSome(link_info) /\ has_volume_id) =>
          /\ volume.start_offset = info.start_offset + info.volume_id_offset
          /\ volume.volume_label_offset = volume_field(12)
          /\ IsSome(volume.volume_label_offset_unicode) <=> volume_field(12) = 20
          /\ IF volume_field(12) = 20
             THEN /\ volume.volume_label_offset_unicode = Some(volume_field(16))
                  /\ volume.volume_label =
                         NullTerminatedString_read(
                             data, volume.start_offset + volume_field(16),
                             "Unicode").val.string
             ELSE volume.volume_label =
                      NullTerminatedString_read(
                          data, volume.start_offset + volume_field(12),
                          "CodePage").val.string

\* A VolumeID was decoded whose volume_label_offset is 0x14 and whose label
\* is "W", the UTF-16LE string at volume_label_offset_unicode 0x16, while
\* the code-page string at 0x14 is "V".
C21_Witness ==
    /\ IsSome(link_info) /\ has_volume_id
    /\ volume_field(12) = 20
    /\ volume.volume_label_offset_unicode = Some(22)
    /\ volume.volume_label = << 87 >>
    /\ data[volume.start_offset + 21] = 86

\* A VolumeID was decoded whose volume_label_offset is 0x18 and whose label
\* is "V", the code-page string at that offset.
volume_label_in_code_page ==
    /\ IsSome(link_info) /\ has_volume_id
    /\ volume_field(12) = 24
    /\ volume.volume_label_offset_unicode = None
    /\ volume.volume_label = << 86 >>

\* The CommonNetworkRelativeLink of the decoded LinkInfo, and the value of
\* a field of its header in the file.
network == Unwrap(info.common_network_relative_link)
network_field(off) == read_u32(data, network.start_offset + off)

\* The NUL-terminated string of the file at offset `off` of the decoded
\* CommonNetworkRelativeLink, in the given encoding.
network_string(off, encoding) ==
    NullTerminatedString_read(data, network.start_offset + off, encoding).val.string

\* The file holds, at the cursor, a LinkInfo with header size 0x1C, both
\* flags, and a CommonNetworkRelativeLink laid out with net_name_offset
\* 0x14 or with the two Unicode offsets.
network_link_laid_out ==
    /\ pc = "linkinfo"
    /\ HAS_LINK_INFO \in link_flags
    /\ data \in { HeaderWith({ HAS_LINK_INFO, HAS_NAME })
                  \o LinkInfoBytes(28, LinkInfoFlags, wide, { VALID_NET_TYPE },
                                   26 * 65536, 0)
                  \o to_data(<< 65 >>, {}) : wide \in BOOLEAN }

\* C22: in a decoded CommonNetworkRelativeLink, net_name_offset_unicode and
\* device_name_offset_unicode are both present exactly when net_name_offset
\* exceeds 0x14, and the names are then the UTF-16LE strings at those
\* offsets; otherwise neither is present and the names are the code-page
\* strings at net_name_offset and device_name_offset.  A LinkInfo laid out
\* with such a CommonNetworkRelativeLink is decoded.
C22_NetNameUnicode ==
    /\ network_link_laid_out => result = "none"
    /\ (IsSome(link_info) /\ has_network_link) =>
          /\ network.start_offset =
                 info.start_offset + info.common_network_relative_link_offset
          /\ network.net_name_offset = network_field(8)
          /\ network.device_name_offset = network_field(12)
          /\ IsSome(network.net_name_offset_unicode) <=> network_field(8) > 20
          /\ IsSome(network.device_name_offset_unicode) <=> network_field(8) > 20
          /\ IF network_field(8) > 20
             THEN /\ network.net_name_offset_unicode = Some(network_field(20))
                  /\ network.device_name_offset_unicode = Some(network_field(24))
                  /\ network.net_name = network_string(network_field(20), "Unicode")
                  /\ network.device_name = network_string(network_field(24), "Unicode")
             ELSE /\ network.net_name = network_string(network_field(8), "CodePage")
                  /\ network.device_name = network_string(network_field(12), "CodePage")

\* A CommonNetworkRelativeLink was decoded whose net_name_offset is 0x14:
\* it has no Unicode offset and its names are "N" and "D", the code-page
\* strings at offsets 0x14 and 0x16.
C22_Witness ==
    /\ IsSome(link_info) /\ has_network_link
    /\ network_field(8) = 20
    /\ network_field(12) = 22
    /\ network.net_name_offset_unicode = None
    /\ network.device_name_offset_unicode = None
    /\ network.net_name = << 78 >>
    /\ network.device_name = << 68 >>

\* A CommonNetworkRelativeLink was decoded whose net_name_offset is 0x1C:
\* its names are "n" and "d", the UTF-16LE strings at the two Unicode
\* offsets.
net_name_in_unicode ==
    /\ IsSome(link_info) /\ has_network_link
    /\ network_field(8) = 28
    /\ network.net_name_offset_unicode = Some(32)
    /\ network.device_name_offset_unicode = Some(36)
    /\ network.net_name = << 110 >>
    /\ network.device_name = << 100 >>

-----------------------------------------------------------------------------
(* Properties of the flag fields.                                         *)

\* The ExtraData block open decoded last, where it starts in the file, and
\* whether it is a Console block.
last_block == extra_data[Len(extra_data)]
last_block_start == cursor - 204
console_decoded ==
    /\ pc = "extradata" /\ result = "none"
    /\ extra_data # << >>
    /\ last_block.kind = "ConsoleProps"

\* The flag fields of the header and of the LinkInfo are decoded strictly:
\* a header was decoded only from link flags, file attributes and hotkey
\* modifiers without an undefined bit, a LinkInfo only from flags without
\* an undefined bit.
strict_header_and_link_info_flags ==
    /\ IsSome(header) =>
          /\ read_bits(data, 20, 4) \subseteq LinkFlags
          /\ read_bits(data, 24, 4) \subseteq FileAttributeFlags
          /\ read_bits(data, 65, 1) \subseteq HotkeyModifiers
    /\ IsSome(link_info) =>
          read_bits(data, info.start_offset + 8, 4) \subseteq LinkInfoFlags

\* The flag fields of a Console block are decoded strictly: a Console block
\* was decoded only from fill attributes, popup fill attributes and a font
\* family without an undefined bit.
strict_console_flags ==
    console_decoded =>
        /\ read_bits(data, last_block_start + 8, 2) \subseteq FillAttributeFlags
        /\ read_bits(data, last_block_start + 10, 2) \subseteq FillAttributeFlags
        /\ read_bits(data, last_block_start + 36, 4) \subseteq FontFamilyFlags

\* C23: every flag field read from the stream is decoded strictly: a value
\* is decoded only when every set bit of the raw integer is a defined flag
\* of its type (LinkFlags, FileAttributeFlags, hotkey modifiers,
\* LinkInfoFlags, the console fill and font flags).
C23_StrictFlags ==
    /\ strict_header_and_link_info_flags
    /\ strict_console_flags

\* A Console block was decoded from fill attributes 0x0107 and font family
\* 0xB1: the undefined bits 0x0100 and 0x80 were dropped.
C23_Witness ==
    /\ console_decoded
    /\ read_u16(data, last_block_start + 8) = 263
    /\ read_u32(data, last_block_start + 36) = 177
    /\ last_block.block.fill_attributes = { 0, 1, 2 }
    /\ last_block.block.font_family = { 0, 4, 5 }

\* open failed on a header whose link flags, file attributes or hotkey
\* modifiers hold an undefined bit.
undefined_header_bit_rejected ==
    /\ pc = "open" /\ result = "AssertFail"
    /\ Len(data) >= HeaderLen
    /\ Slice(data, 4, 20) = CLSID
    /\ \/ ~(read_bits(data, 20, 4) \subseteq LinkFlags)
       \/ ~(read_bits(data, 24, 4) \subseteq FileAttributeFlags)
       \/ ~(read_bits(data, 65, 1) \subseteq HotkeyModifiers)

-----------------------------------------------------------------------------
(* Properties of the fixed-size strings.                                  *)

\* The text before the first NUL of s, and the whole of s when it holds no
\* NUL.
text_before_nul(s) ==
    IF \E i \in 1..Len(s) : s[i] = 0
    THEN SubSeq(s, 1, (CHOOSE i \in 1..Len(s) : s[i] = 0 /\ \A j \in 1..(i - 1) : s[j] # 0) - 1)
    ELSE s

\* open decoded the first block of a file without any section before
\* ExtraData: its body starts at offset 0x4C + 8.
first_block_decoded ==
    /\ pc = "extradata" /\ result = "none"
    /\ Len(extra_data) = 1
    /\ link_flags \cap (HAS_LINK_TARGET_ID_LIST..HAS_ICON_LOCATION) = {}
first_block_body == HeaderLen + 8

\* The kinds of block whose two strings go through
\* trim_nul_terminated_string, and the size of the buffer a fixed-size
\* string is read from in the body of a block of the given kind.
TrimmedKinds == { "EnvironmentProps", "DarwinProps", "IconEnvironmentProps" }
fixed_size(kind) == IF kind \in TrimmedKinds THEN 260 ELSE 4

\* C24: a fixed-size string field is the decoded text before the first NUL,
\* and the whole decoded buffer when the buffer holds no NUL: for the first
\* string of an EnvironmentVariable, Darwin or IconEnvironment block, and
\* for FixedSizeString read from the body of a block.
C24_TrimAtFirstNul ==
    first_block_decoded =>
        /\ last_block.kind \in TrimmedKinds =>
               last_block.block.ansi =
                   text_before_nul(Slice(data, first_block_body, first_block_body + 260))
        /\ (/\ last_block.kind \in TrimmedKinds \cup { "PropertyStoreProps" }
            /\ avail(data, first_block_body, fixed_size(last_block.kind))) =>
               LET count == fixed_size(last_block.kind)
                   buffer == Slice(data, first_block_body, first_block_body + count)
               IN  FixedSizeString_read(data, first_block_body, count, "CodePage") =
                       Ok(text_before_nul(W1252_decode(buffer).val))

\* An EnvironmentVariable block was decoded whose first 260 bytes hold no
\* NUL, and its target_ansi is the empty string.
C24_Witness ==
    /\ first_block_decoded
    /\ last_block.kind = "EnvironmentProps"
    /\ \A i \in 1..260 : data[first_block_body + i] # 0
    /\ last_block.block.ansi = << >>

\* FixedSizeString read from the same 260 bytes is the whole buffer.
fixed_size_string_whole_without_nul ==
    /\ first_block_decoded
    /\ last_block.kind = "EnvironmentProps"
    /\ \A i \in 1..260 : data[first_block_body + i] # 0
    /\ FixedSizeString_read(data, first_block_body, 260, "CodePage") =
           Ok(Slice(data, first_block_body, first_block_body + 260))

\* FixedSizeString read from the bytes E9 00 58 00 is U+00E9 followed by
\* the NUL: the byte index of the NUL in the String is 2, and substring
\* takes two characters.
fixed_size_string_keeps_nul ==
    /\ first_block_decoded
    /\ last_block.kind = "PropertyStoreProps"
    /\ Slice(data, first_block_body, first_block_body + 4) = << 233, 0, 88, 0 >>
    /\ FixedSizeString_read(data, first_block_body, 4, "CodePage") = Ok(<< 233, 0 >>)

-----------------------------------------------------------------------------
(* Properties of the VistaAndAboveIDList block.                           *)

\* The ItemIDs of an IDList laid out from position pos of body up to its
\* terminator.
RECURSIVE items_before_terminator(_, _)
items_before_terminator(body, pos) ==
    LET size == read_u16(body, pos)
    IN  IF size = 0 THEN << >>
        ELSE << [size |-> size, data |-> Slice(body, pos + 2, pos + size)] >>
             \o items_before_terminator(body, pos + size)

\* The file is a header, one VistaAndAboveIDList block whose body is an
\* IDList, and the terminal block; open is at the ExtraData section.
vista_block_laid_out ==
    /\ pc = "extradata"
    /\ data \in VistaInputs
vista_body == Slice(data, first_block_body, HeaderLen + read_u32(data, HeaderLen))

\* C25: a VistaAndAboveIDList block whose body is k ItemIDs followed by the
\* terminator is decoded, with the budget block_size - 8 starting after the
\* signature, to exactly those k ItemIDs; the block of size 0x0A, whose body
\* is the terminator, is decoded to the empty list.
C25_VistaIdList ==
    vista_block_laid_out =>
        /\ result \in { "none", "Ok" }
        /\ extra_data # << >> =>
               /\ extra_data[1].kind = "VistaAndAboveIdListProps"
               /\ extra_data[1].block.id_list = items_before_terminator(vista_body, 0)

\* open panicked on a VistaAndAboveIDList block of size 0x0E whose body is
\* one ItemID of 4 bytes and the terminator.
C25_Witness ==
    /\ vista_block_laid_out
    /\ read_u32(data, HeaderLen) = 14
    /\ vista_body = ItemBytes(4) \o ItemBytes(0)
    /\ extra_data = << >>
    /\ result = "panic"

\* open returned a VistaAndAboveIDList block whose list is one ItemID of 4
\* bytes, read at offset 8 of the body, from a body that holds one ItemID
\* of 10 bytes.
vista_item_read_at_offset_8 ==
    /\ vista_block_laid_out
    /\ result = "Ok"
    /\ Len(items_before_terminator(vista_body, 0)) = 1
    /\ items_before_terminator(vista_body, 0)[1].size = 10
    /\ extra_data[1].block.id_list = << [size |-> 4, data |-> << 0, 0 >>] >>

\* open panicked on the block of size 0x0A, whose body is the terminator.
minimal_vista_block_panics ==
    /\ vista_block_laid_out
    /\ read_u32(data, HeaderLen) = 10
    /\ vista_body = ItemBytes(0)
    /\ extra_data = << >>
    /\ result = "panic"

-----------------------------------------------------------------------------
(* Properties of the ShellLink setters and of new_simple.                 *)

\* The seven optional parts of a ShellLink: the five strings, the
\* LinkTargetIdList (6) and the LinkInfo (7); the presence bit and the field
\* of each.
Parts == 1..7
presence_bit(k) ==
    IF k <= 5 THEN SlotFlag(k)
    ELSE IF k = 6 THEN HAS_LINK_TARGET_ID_LIST ELSE HAS_LINK_INFO
part(sl, k) ==
    IF k <= 5 THEN sl.strs[k]
    ELSE IF k = 6 THEN sl.linktarget_id_list ELSE sl.link_info

\* C26: in a link made by ShellLink::default() and changed by the seven
\* setters only, each of the seven presence bits of header.link_flags is
\* set if and only if its field is Some.
C26_PresenceBits ==
    (made_by = "default" /\ IsSome(link)) =>
        \A k \in Parts :
            presence_bit(k) \in Unwrap(link).header.link_flags
                <=> IsSome(part(Unwrap(link), k))

\* The setters have set the name, the LinkTargetIdList and the LinkInfo and
\* have set the relative path back to None: three bits are set, four clear.
C26_Witness ==
    /\ pc = "build" /\ made_by = "default" /\ IsSome(link)
    /\ IsSome(Unwrap(link).strs[1])
    /\ IsSome(Unwrap(link).linktarget_id_list)
    /\ IsSome(Unwrap(link).link_info)
    /\ \A k \in 2..5 : ~IsSome(Unwrap(link).strs[k])
    /\ Unwrap(link).header.link_flags \cap (HAS_LINK_TARGET_ID_LIST..HAS_ICON_LOCATION) =
           { HAS_LINK_TARGET_ID_LIST, HAS_LINK_INFO, HAS_NAME }

\* Between the links old and new nothing but part k and its presence bit
\* differs.
only_changed(old, new, k) ==
    /\ new.header.link_flags \ { presence_bit(k) } =
           old.header.link_flags \ { presence_bit(k) }
    /\ [new.header EXCEPT !.link_flags = {}] = [old.header EXCEPT !.link_flags = {}]
    /\ \A j \in Parts \ { k } : part(new, j) = part(old, j)
    /\ new.extra_data = old.extra_data

\* The link the setter of part k makes of sl when called with v, and the
\* values the setters are called with.
setter(sl, k, v) ==
    IF k <= 5 THEN set_string(sl, k, v)
    ELSE IF k = 6 THEN ShellLink_set_linktarget_id_list(sl, v)
    ELSE ShellLink_set_link_info(sl, v)
SetterValues(k) ==
    IF k = 1 THEN NameValues
    ELSE IF k <= 5 THEN PathValues
    ELSE IF k = 6 THEN IdListValues
    ELSE LinkInfoOptions

\* C27: each setter changes only its own field and its own presence bit;
\* every other bit of header.link_flags (IS_UNICODE included), every other
\* header field, every other optional field and extra_data stay as they
\* were: of every link the setters can be called on, and every value they
\* are called with.
C27_SetterFrame ==
    (pc = "build" /\ result = "none" /\ made_by = "default") =>
        \A k \in Parts : \A v \in SetterValues(k) :
            only_changed(Unwrap(link), setter(Unwrap(link), k, v), k)

\* Setters were called on a link whose IS_UNICODE had been cleared: the
\* relative path, the arguments and the LinkInfo are set, the name is not,
\* and IS_UNICODE is still clear.
C27_Witness ==
    /\ pc = "build" /\ made_by = "default" /\ IsSome(link)
    /\ Unwrap(link).header.link_flags = { HAS_LINK_INFO, HAS_RELATIVE_PATH, HAS_ARGUMENTS }
    /\ IsSome(Unwrap(link).strs[2])
    /\ IsSome(Unwrap(link).strs[4])
    /\ IsSome(Unwrap(link).link_info)
    /\ Unwrap(link).header.file_attributes = { FILE_ATTRIBUTE_NORMAL }

\* The link new_simple returned, before anything else was done with it.
returned_by_new_simple == made_by = "new_simple" /\ IsSome(link)

\* C28: in every link returned by new_simple, each presence flag is set
\* only if its field is Some, and save of that link does not panic on a set
\* flag whose section is missing.
C28_NewSimpleConsistent ==
    returned_by_new_simple =>
        /\ \A k \in Parts :
               presence_bit(k) \in Unwrap(link).header.link_flags
                   => IsSome(part(Unwrap(link), k))
        /\ result # "panic"

\* save panicked on the link new_simple returned for a file: HAS_LINK_INFO
\* is set and link_info is None.
C28_Witness ==
    /\ returned_by_new_simple
    /\ pc = "build" /\ result = "panic"
    /\ HAS_LINK_INFO \in Unwrap(link).header.link_flags
    /\ Unwrap(link).link_info = None
    /\ Unwrap(link).strs[2] = Some(<< 46, 92, 110 >>)
    /\ Unwrap(link).strs[3] = Some(<< 47 >>)

\* The link new_simple returned for a directory was saved and opened.
new_simple_directory_saved ==
    /\ returned_by_new_simple
    /\ pc # "build" /\ result = "Ok"
    /\ Unwrap(link).header.link_flags = { IS_UNICODE }
    /\ Unwrap(opened).header.file_attributes = { FILE_ATTRIBUTE_DIRECTORY }

-----------------------------------------------------------------------------
(* Properties of the IDList byte budget.                                  *)

\* The ItemID the IdList reader is about to read, and whether it is a
\* non-terminal ItemID larger than the bytes still to read.
next_item == ItemID_read(data, cursor + 2 + consumed)
item_exceeds_budget ==
    /\ pc = "idlist" /\ result = "none"
    /\ bytes_to_read >= 2
    /\ next_item.res = "Ok"
    /\ next_item.val.size > bytes_to_read

\* C29: when a non-terminal ItemID reports a size larger than the bytes
\* still to read, decoding fails with an error value: bytes_to_read - size
\* is not computed, neither wrapping modulo 2^16 nor panicking.
C29_BudgetNeverUnderflows ==
    [][ item_exceeds_budget => result' \in ErrorValues ]_vars

\* The reader panicked on the subtraction: the ItemID it read is larger
\* than bytes_to_read.
C29_Witness ==
    /\ pc = "idlist" /\ result = "panic"
    /\ IsSome(item_id)
    /\ Unwrap(item_id).size > bytes_to_read
    /\ bytes_to_read >= 2

\* The reader went on with a wrapped budget: bytes_to_read is larger than
\* the length the IDList declares.
budget_wrapped ==
    /\ pc = "idlist"
    /\ IsSome(item_id)
    /\ item_id_list # << >>
    /\ bytes_to_read > read_u16(data, cursor)

-----------------------------------------------------------------------------
(* Properties of the ExtraData block sizes.                               *)

\* open stands at an ExtraData block whose block_size is 4, 5, 6 or 7, or
\* exceeds the bytes left in the file.
left_in_file == Len(data) - cursor
bad_block_size ==
    /\ pc = "extradata"
    /\ cursor <= Len(data)
    /\ left_in_file >= 4
    /\ \/ read_u32(data, cursor) \in 4..7
       \/ read_u32(data, cursor) > left_in_file

\* C30: an ExtraData block whose block_size is 4, 5, 6 or 7, or exceeds the
\* bytes left in the file, makes open return an error value, not panic on
\* an index outside the input; and the cursor of the ExtraData loop never
\* exceeds the length of the input.
C30_BadBlockSizeIsError ==
    /\ bad_block_size => result \in { "none" } \cup ErrorValues
    /\ (pc = "extradata" /\ extra_data # << >>) => cursor <= Len(data)

\* open panicked on a block of block_size 7, after decoding a block before
\* it.
C30_Witness ==
    /\ bad_block_size
    /\ read_u32(data, cursor) = 7
    /\ extra_data # << >>
    /\ result = "panic"

\* open panicked on a block whose block_size 0x40 exceeds the 12 bytes
\* left in the file.
block_size_beyond_input ==
    /\ bad_block_size
    /\ read_u32(data, cursor) = 64
    /\ left_in_file = 12
    /\ result = "panic"

\* In the ExtraData loop the cursor stays within the input.
extradata_cursor_in_bounds ==
    (pc = "extradata" /\ extra_data # << >>) => cursor <= Len(data)

=============================================================================
